---- MODULE Spec2Model ----
(***************************************************************************)
(* Model of the page search service of Assignment_7: the result scorer    *)
(* (action.py), the vector store (memory.py), the sensitive-url test       *)
(* (decision.py) and the /process route (agent.py); of the movie           *)
(* recommender of Assignment_6 (main.py, memory.py, decision.py); of       *)
(* get_paint_actions of Assignment_4 (paint_agent.py); and of the agent    *)
(* of Assignment_8 (agent.py).  Each has its own specification; the        *)
(* variables of the others stay at their idle values.                      *)
(*                                                                         *)
(* Strings are sequences of one-character strings, so that lower(),        *)
(* replace(), split('/'), split() and the substring test `in` are computed *)
(* character by character as Python computes them.  Floats are modelled as *)
(* exact rationals <<numerator, denominator>> with a positive denominator; *)
(* round(x, 3) rounds to the nearest thousandth, ties to even.             *)
(***************************************************************************)
EXTENDS Integers, Sequences, FiniteSets

VARIABLES
    min_confidence_threshold,  \* self.min_confidence_threshold
    semantic_weight,           \* self.semantic_weight
    term_weight,               \* self.term_weight
    results,                   \* the argument of process_search_results
    locals,                    \* the loop's local values, one record per raw result visited
    processed_results,         \* the list the call builds and returns
    pc,                        \* "call" before the call, "return" / "raise" after it
    seen,                      \* history: <<argument, returned list>> of the calls completed
    index,                     \* FaissMemory.index: the vectors, in the order they were added
    urls,                      \* FaissMemory.urls
    index_file,                \* faiss_index.bin on disk
    urls_file,                 \* urls.json on disk
    last_call,                 \* the last call on the FaissMemory: arguments, vector used, outcome
    threads,                   \* the request threads of the Flask server that are in use
    tpc,                       \* per thread: where its /process request stands
    treq,                      \* per thread: the url of its request
    tsens,                     \* per thread: what is_sensitive_url returned for it
    temb,                      \* per thread: the embedding generate_embedding returned
    tret,                      \* per thread: the status process_page returned
    tsnap,                     \* history, per thread: the store when the request arrived
    embed_calls,               \* history: number of generate_embedding calls made
    served,                    \* number of requests received
    restarts,                  \* number of times the service was restarted
    memory_file,               \* Assignment_6: agent_memory.json on disk, as the list of its items
    memories,                  \* Assignment_6: memories of the Memory object of main()
    dm_memories,               \* Assignment_6: memories of DecisionMaker.memory
    mpc,                       \* Assignment_6: where main() stands in its loop
    current_context,           \* Assignment_6: the request read by main()
    input_data,                \* Assignment_6: the argument of make_decision
    gemini_response,           \* Assignment_6: what generate_content did in make_decision
    decision_output,           \* Assignment_6: what make_decision returned
    action_output,             \* Assignment_6: what action.execute returned
    success_rating,            \* Assignment_6: the rating main() is about to store
    now,                       \* Assignment_6: datetime.now(), as a logical clock
    asked,                     \* Assignment_6: number of requests read by main()
    added,                     \* history: add_memory calls made for the current request
    ppc,                       \* Assignment_4: "call" before get_paint_actions, "done" after
    operation,                 \* Assignment_4: the operation argument
    kwargs,                    \* Assignment_4: the keyword arguments
    llm_response,              \* Assignment_4: what get_llm_response did
    actions_data,              \* Assignment_4: what get_paint_actions returned or raised
    apc,                       \* Assignment_8: where main() stands
    multi_mcp,                 \* Assignment_8: AgentManager.multi_mcp is set
    token,                     \* Assignment_8: TELEGRAM_BOT_TOKEN is set
    mode,                      \* Assignment_8: the mode read last, stripped
    setup,                     \* Assignment_8: how setup_telegram ended
    user_input,                \* Assignment_8: the query handled last
    replies,                   \* Assignment_8: the reply_text calls made for that query
    outcome,                   \* Assignment_8: what process_query did with that query
    handled                    \* Assignment_8: number of queries handled

scorerVars == <<min_confidence_threshold, semantic_weight, term_weight,
                results, locals, processed_results, pc, seen>>

memVars == <<index, urls, index_file, urls_file, last_call>>

agentVars == <<threads, tpc, treq, tsens, temb, tret, tsnap, embed_calls, served, restarts>>

movieVars == <<memory_file, memories, dm_memories, mpc, current_context, input_data,
               gemini_response, decision_output, action_output, success_rating,
               now, asked, added>>

paintVars == <<ppc, operation, kwargs, llm_response, actions_data>>

shareVars == <<apc, multi_mcp, token, mode, setup, user_input, replies, outcome, handled>>

appVars == <<movieVars, paintVars, shareVars>>

vars == <<scorerVars, memVars, agentVars, appVars>>

(***************************************************************************)
(* Bounds and input sets                                                   *)
(***************************************************************************)
MaxResults == 2

\* "s/m-l", "M_l", "ab/"
Urls ==
    { <<"s", "/", "m", "-", "l">>,
      <<"M", "_", "l">>,
      <<"a", "b", "/">> }

\* "", " ", "ab", "A", "m l", "l \tL"
Queries ==
    { << >>,
      <<" ">>,
      <<"a", "b">>,
      <<"A">>,
      <<"m", " ", "l">>,
      <<"l", " ", "\t", "L">> }

\* 0, 1/2, 3
Distances == { <<0, 1>>, <<1, 2>>, <<3, 1>> }

RawResults == [url : Urls, distance : Distances, query : Queries]

RECURSIVE SeqsUpTo(_, _)
SeqsUpTo(S, n) ==
    IF n = 0 THEN { <<>> }
    ELSE LET shorter == SeqsUpTo(S, n - 1)
         IN  shorter \cup { Append(s, x) : s \in shorter, x \in S }

\* What a caller may pass: a list of raw results, or None.
ListArg(items) == [tag |-> "list", items |-> items]
NoneArg == [tag |-> "None", items |-> <<>>]
Arguments == { ListArg(s) : s \in SeqsUpTo(RawResults, MaxResults) } \cup { NoneArg }

(***************************************************************************)
(* Rational arithmetic                                                     *)
(***************************************************************************)
RECURSIVE GCD(_, _)
GCD(a, b) == IF b = 0 THEN a ELSE GCD(b, a % b)

Abs(n) == IF n < 0 THEN -n ELSE n

Rat(n, d) ==
    LET g == GCD(Abs(n), d)
    IN  IF n = 0 THEN <<0, 1>> ELSE <<n \div g, d \div g>>

RAdd(x, y) == Rat(x[1] * y[2] + y[1] * x[2], x[2] * y[2])
RMul(x, y) == Rat(x[1] * y[1], x[2] * y[2])
RLeq(x, y) == x[1] * y[2] <= y[1] * x[2]
RLt(x, y)  == x[1] * y[2] <  y[1] * x[2]
RMax(x, y) == IF RLeq(x, y) THEN y ELSE x
RMin(x, y) == IF RLeq(x, y) THEN x ELSE y

Zero == <<0, 1>>
One  == <<1, 1>>

\* mutation of Round3: the rounding left out
Round3None(x) == x

\* round(x, 3)
Round3(x) ==
    LET k   == (1000 * x[1]) \div x[2]
        rem == (1000 * x[1]) % x[2]
        up  == \/ 2 * rem > x[2]
               \/ 2 * rem = x[2] /\ k % 2 = 1
    IN  Rat(IF up THEN k + 1 ELSE k, 1000)

(***************************************************************************)
(* String operations                                                       *)
(***************************************************************************)
Range(s) == { s[i] : i \in DOMAIN s }

LowerChar(c) ==
    CASE c = "A" -> "a"
      [] c = "B" -> "b"
      [] c = "C" -> "c"
      [] c = "D" -> "d"
      [] c = "E" -> "e"
      [] c = "F" -> "f"
      [] c = "G" -> "g"
      [] c = "H" -> "h"
      [] c = "I" -> "i"
      [] c = "J" -> "j"
      [] c = "K" -> "k"
      [] c = "L" -> "l"
      [] c = "M" -> "m"
      [] c = "N" -> "n"
      [] c = "O" -> "o"
      [] c = "P" -> "p"
      [] c = "Q" -> "q"
      [] c = "R" -> "r"
      [] c = "S" -> "s"
      [] c = "T" -> "t"
      [] c = "U" -> "u"
      [] c = "V" -> "v"
      [] c = "W" -> "w"
      [] c = "X" -> "x"
      [] c = "Y" -> "y"
      [] c = "Z" -> "z"
      [] OTHER   -> c

\* str.lower()
Lower(s) == [i \in DOMAIN s |-> LowerChar(s[i])]

\* str.replace(old, new) for one-character old and new
Replace(s, old, new) == [i \in DOMAIN s |-> IF s[i] = old THEN new ELSE s[i]]

IsSpace(c) == c \in {" ", "\t", "\n"}

\* str.split(sep): cut at every sep, empty pieces kept
RECURSIVE SplitSep(_, _)
SplitSep(s, sep) ==
    IF \A i \in DOMAIN s : s[i] # sep THEN << s >>
    ELSE LET i == CHOOSE j \in DOMAIN s :
                      /\ s[j] = sep
                      /\ \A k \in 1..(j - 1) : s[k] # sep
         IN  << SubSeq(s, 1, i - 1) >> \o SplitSep(SubSeq(s, i + 1, Len(s)), sep)

\* str.split(): cut at runs of whitespace, no empty pieces
RECURSIVE SplitWs(_)
SplitWs(s) ==
    IF \A i \in DOMAIN s : IsSpace(s[i]) THEN << >>
    ELSE LET b == CHOOSE j \in DOMAIN s :
                      /\ ~IsSpace(s[j])
                      /\ \A k \in 1..(j - 1) : IsSpace(s[k])
             e == CHOOSE j \in b..Len(s) :
                      /\ \A k \in b..j : ~IsSpace(s[k])
                      /\ j = Len(s) \/ IsSpace(s[j + 1])
         IN  << SubSeq(s, b, e) >> \o SplitWs(SubSeq(s, e + 1, Len(s)))

\* term in url_term
IsSubstr(t, u) ==
    \E i \in 0..(Len(u) - Len(t)) : SubSeq(u, i + 1, i + Len(t)) = t

(***************************************************************************)
(* SearchAction.process_search_results, line by line                       *)
(***************************************************************************)
\* mutation of Falsy: `if results == []`, which lets None through to the loop
FalsyOnlyEmptyList(arg) == arg.tag = "list" /\ arg.items = << >>

\* if not results
Falsy(arg) == arg.tag = "None" \/ arg.items = << >>

\* for result in results: only a list can be iterated
Iterable(arg) == arg.tag = "list"

\* mutation of SimilarityDivisorZero: 1.0 / distance
DistanceZero(distance) == distance[1] = 0

\* line 17 divides by 1.0 + distance: ZeroDivisionError when that is 0
SimilarityDivisorZero(distance) == distance[2] + distance[1] = 0

\* mutation of SemanticSimilarity: distance / (1.0 + distance)
SemanticSimilarityInverted(distance) == Rat(distance[1], distance[2] + distance[1])

\* semantic_similarity = 1.0 / (1.0 + result['distance'])
SemanticSimilarity(distance) == Rat(distance[2], distance[2] + distance[1])

\* query_terms = set(result['query'].lower().split())
QueryTerms(query) == Range(SplitWs(Lower(query)))

\* url_terms = set(url.lower().replace('-', ' ').replace('_', ' ').split('/'))
\* url_terms.update(url.lower().replace('-', ' ').replace('_', ' ').split())
UrlTerms(url) ==
    LET u == Replace(Replace(Lower(url), "-", " "), "_", " ")
    IN  Range(SplitSep(u, "/")) \cup Range(SplitWs(u))

\* exact_matches = sum(1 for term in query_terms if any(term == url_term ...))
ExactMatches(query_terms, url_terms) ==
    Cardinality({ term \in query_terms : \E url_term \in url_terms : term = url_term })

\* partial_matches = sum(1 for term in query_terms if any(term in url_term ...))
PartialMatches(query_terms, url_terms) ==
    Cardinality({ term \in query_terms : \E url_term \in url_terms : IsSubstr(term, url_term) })

\* mutation of GuardsDivision: the `if query_terms else 0` left out
GuardsDivisionNone(query_terms) == TRUE

\* line 29 evaluates the division only `if query_terms`
GuardsDivision(query_terms) == query_terms # {}

\* the loop iteration for this raw result raises ZeroDivisionError
IterationRaises(result) ==
    \/ SimilarityDivisorZero(result.distance)
    \/ /\ GuardsDivision(QueryTerms(result.query))
       /\ Cardinality(QueryTerms(result.query)) = 0

\* mutation of TermMatchScore: the 0.5 weight of partial matches left out
TermMatchScoreUnweighted(exact_matches, partial_matches, n_terms) ==
    IF n_terms # 0
    THEN Rat(exact_matches + partial_matches, n_terms)
    ELSE Zero

\* (exact_matches + 0.5 * partial_matches) / len(query_terms) if query_terms else 0
TermMatchScore(exact_matches, partial_matches, n_terms) ==
    IF n_terms # 0
    THEN Rat(2 * exact_matches + partial_matches, 2 * n_terms)
    ELSE Zero

\* mutation of WeightedSum: the two weights exchanged
WeightedSumSwapped(semantic_similarity, term_match_score, sw, tw) ==
    RAdd(RMul(semantic_similarity, tw), RMul(term_match_score, sw))

\* (semantic_similarity * self.semantic_weight) + (term_match_score * self.term_weight)
WeightedSum(semantic_similarity, term_match_score, sw, tw) ==
    RAdd(RMul(semantic_similarity, sw), RMul(term_match_score, tw))

\* mutation of Clamp: the clamp left out
ClampNone(confidence) == confidence

\* max(0.0, min(1.0, confidence))
Clamp(confidence) == RMax(Zero, RMin(One, confidence))

\* mutation of Keep: the threshold test left out
KeepAll(confidence, threshold) == TRUE

\* mutation of Keep: the comparison turned round
KeepInverted(confidence, threshold) == RLeq(confidence, threshold)

\* if confidence >= self.min_confidence_threshold
Keep(confidence, threshold) == RLeq(threshold, confidence)

\* the values one loop iteration computes for one raw result
Score(result, sw, tw) ==
    LET semantic_similarity == SemanticSimilarity(result.distance)
        query_terms         == QueryTerms(result.query)
        url_terms           == UrlTerms(result.url)
        exact_matches       == ExactMatches(query_terms, url_terms)
        partial_matches     == PartialMatches(query_terms, url_terms)
        term_match_score    == TermMatchScore(exact_matches, partial_matches,
                                              Cardinality(query_terms))
    IN  [ semantic_similarity |-> semantic_similarity,
          query_terms         |-> query_terms,
          url_terms           |-> url_terms,
          exact_matches       |-> exact_matches,
          partial_matches     |-> partial_matches,
          term_match_score    |-> term_match_score,
          confidence          |-> Clamp(WeightedSum(semantic_similarity,
                                                    term_match_score, sw, tw)) ]

\* the dict appended to processed_results
Entry(result, l) ==
    [ url                    |-> result.url,
      confidence             |-> Round3(l.confidence),
      semantic_score         |-> Round3(l.semantic_similarity),
      term_score             |-> Round3(l.term_match_score),
      highlight_instructions |-> [ method               |-> "semantic_highlight",
                                   confidence_threshold |-> l.confidence ] ]

\* processed_results after the loop: the entries of the kept results, in input order
Appended(items, ls, threshold) ==
    LET entries == [i \in DOMAIN items |-> Entry(items[i], ls[i])]
    IN  SelectSeq(entries,
                  LAMBDA e : Keep(e.highlight_instructions.confidence_threshold, threshold))

\* one insertion of the stable descending sort: x goes after every element
\* whose key is >= its own
InsertDesc(sorted, x) ==
    LET k == Cardinality({ i \in DOMAIN sorted : RLeq(x.confidence, sorted[i].confidence) })
    IN  SubSeq(sorted, 1, k) \o << x >> \o SubSeq(sorted, k + 1, Len(sorted))

\* mutation of SortByConfidence: the sort left out
SortNone(seq) == seq

\* processed_results.sort(key=lambda x: x['confidence'], reverse=True)
RECURSIVE SortByConfidence(_)
SortByConfidence(seq) ==
    IF seq = << >> THEN << >>
    ELSE InsertDesc(SortByConfidence(SubSeq(seq, 1, Len(seq) - 1)), seq[Len(seq)])

(***************************************************************************)
(* State machine                                                           *)
(***************************************************************************)
\* a file: missing, or holding what the last complete write put there
Absent == [state |-> "absent", data |-> << >>]
FileOf(data) == [state |-> "ok", data |-> data]

NoCall == [op |-> "none", url |-> << >>, embedding |-> << >>, used |-> << >>,
           outcome |-> "none", result |-> << >>]

\* FaissMemory.__init__ in a directory without index files
InitMemory ==
    /\ index = << >>
    /\ urls = << >>
    /\ index_file = Absent
    /\ urls_file = Absent
    /\ last_call = NoCall

\* the request threads the Flask development server may run side by side
Threads == {1, 2}

NoUrl == [id |-> "none", valid |-> FALSE, parse_ok |-> FALSE, netloc |-> << >>]

NoSnap == [index |-> << >>, urls |-> << >>, index_file |-> Absent, urls_file |-> Absent,
           embed_calls |-> 0]

\* the server started, with `active` the threads that will serve requests
InitThreads(active) ==
    /\ threads = active
    /\ tpc = [t \in Threads |-> "idle"]
    /\ treq = [t \in Threads |-> NoUrl]
    /\ tsens = [t \in Threads |-> "none"]
    /\ temb = [t \in Threads |-> << >>]
    /\ tret = [t \in Threads |-> "none"]
    /\ tsnap = [t \in Threads |-> NoSnap]
    /\ embed_calls = 0
    /\ served = 0
    /\ restarts = 0

\* mutation of NewList: the list of the previous call is kept (a list held
\* on the object or in a default argument instead of a fresh local)
StaleList == processed_results

\* processed_results = []
NewList == << >>

\* SearchAction.__init__
InitScorer ==
    /\ min_confidence_threshold = <<2, 5>>
    /\ semantic_weight = <<7, 10>>
    /\ term_weight = <<3, 10>>
    /\ locals = << >>
    /\ processed_results = << >>
    /\ pc = "call"
    /\ seen = {}

\* success_rating = None
NoRating == << >>

\* no make_decision call made yet
NoInput == [kind |-> "none", current_context |-> << >>, favorite_genres |-> << >>]

\* no generate_content call made yet
NoResponse == [raises |-> FALSE, text |-> << >>]

NoDecision == [raised |-> FALSE, recommended_movies |-> << >>, fallback_used |-> FALSE,
               reasoning_type |-> "none", relevant_memories |-> << >>]

NoAction == [success_status |-> FALSE, details |-> "none"]

\* the movie recommender of Assignment_6 not started
IdleMovie ==
    /\ memory_file = << >>
    /\ memories = << >>
    /\ dm_memories = << >>
    /\ mpc = "idle"
    /\ current_context = << >>
    /\ input_data = NoInput
    /\ gemini_response = NoResponse
    /\ decision_output = NoDecision
    /\ action_output = NoAction
    /\ success_rating = NoRating
    /\ now = 1
    /\ asked = 0
    /\ added = 0

NoKwargs == [x1 |-> 0, y1 |-> 0, x2 |-> 0, y2 |-> 0, x |-> 0, y |-> 0, text |-> << >>]

NoActions == [kind |-> "none", exc |-> "none", actions |-> << >>]

\* get_paint_actions of Assignment_4 not called
IdlePaint ==
    /\ ppc = "idle"
    /\ operation = "none"
    /\ kwargs = NoKwargs
    /\ llm_response = NoResponse
    /\ actions_data = NoActions

NoOutcome == [f1_fetched |-> FALSE, agent_loop_run |-> FALSE, raised |-> FALSE, replies |-> << >>]

\* the agent of Assignment_8 not started
IdleShare ==
    /\ apc = "idle"
    /\ multi_mcp = FALSE
    /\ token = FALSE
    /\ mode = << >>
    /\ setup = "none"
    /\ user_input = << >>
    /\ replies = << >>
    /\ outcome = NoOutcome
    /\ handled = 0

IdleApps == IdleMovie /\ IdlePaint /\ IdleShare

\* the scorer after construction, with the argument of its one call chosen
Init ==
    /\ InitScorer
    /\ results \in Arguments
    /\ InitMemory
    /\ InitThreads({})
    /\ IdleApps

\* process_search_results when `not results`: the early return of line 12
ReturnEmpty ==
    /\ pc = "call"
    /\ Falsy(results)
    /\ processed_results' = NewList
    /\ locals' = << >>
    /\ pc' = "return"
    /\ UNCHANGED <<min_confidence_threshold, semantic_weight, term_weight, results, seen>>
    /\ UNCHANGED <<memVars, agentVars, appVars>>

\* process_search_results otherwise: the loop, the sort and the return
ScoreResults ==
    /\ pc = "call"
    /\ ~Falsy(results)
    /\ IF ~Iterable(results)
       THEN \* TypeError: the argument is not iterable
            /\ locals' = << >>
            /\ processed_results' = processed_results
            /\ pc' = "raise"
       ELSE IF \E i \in DOMAIN results.items : IterationRaises(results.items[i])
       THEN \* ZeroDivisionError in the first iteration that raises
            LET k == CHOOSE i \in DOMAIN results.items :
                         /\ IterationRaises(results.items[i])
                         /\ \A j \in 1..(i - 1) : ~IterationRaises(results.items[j])
            IN  /\ locals' = [i \in 1..(k - 1) |->
                                 Score(results.items[i], semantic_weight, term_weight)]
                /\ processed_results' = processed_results
                /\ pc' = "raise"
       ELSE LET ls == [i \in DOMAIN results.items |->
                          Score(results.items[i], semantic_weight, term_weight)]
            IN  /\ locals' = ls
                /\ processed_results' =
                       SortByConfidence(NewList \o
                           Appended(results.items, ls, min_confidence_threshold))
                /\ pc' = "return"
    /\ UNCHANGED <<min_confidence_threshold, semantic_weight, term_weight, results, seen>>
    /\ UNCHANGED <<memVars, agentVars, appVars>>

Next == ReturnEmpty \/ ScoreResults

Spec == Init /\ [][Next]_vars

(***************************************************************************)
(* Several calls on one SearchAction                                       *)
(***************************************************************************)
\* the arguments of the repeated calls: None, [] and lists of one and two
\* raw results
RepeatArgs ==
    { NoneArg,
      ListArg(<< >>),
      ListArg(<< [url |-> <<"a", "b", "/">>, distance |-> <<0, 1>>, query |-> <<"a", "b">>] >>),
      ListArg(<< [url |-> <<"M", "_", "l">>, distance |-> <<3, 1>>, query |-> <<" ">>] >>),
      ListArg(<< [url |-> <<"s", "/", "m", "-", "l">>, distance |-> <<1, 2>>,
                  query |-> <<"m", " ", "l">>],
                 [url |-> <<"a", "b", "/">>, distance |-> <<0, 1>>, query |-> <<"A">>] >>) }

InitRepeat ==
    /\ InitScorer
    /\ results \in RepeatArgs
    /\ InitMemory
    /\ InitThreads({})
    /\ IdleApps

\* the caller takes the returned list and calls the same SearchAction again
NextCall ==
    /\ pc = "return"
    /\ seen' = seen \cup { <<results, processed_results>> }
    /\ results' \in RepeatArgs
    /\ pc' = "call"
    /\ UNCHANGED <<min_confidence_threshold, semantic_weight, term_weight,
                   locals, processed_results>>
    /\ UNCHANGED <<memVars, agentVars, appVars>>

NextRepeat == ReturnEmpty \/ ScoreResults \/ NextCall

SpecRepeat == InitRepeat /\ [][NextRepeat]_vars

(***************************************************************************)
(* FaissMemory (memory.py)                                                 *)
(*                                                                         *)
(* A vector is a sequence of numbers; the components used here are small   *)
(* integers, which float32 holds exactly, so astype(np.float32) leaves     *)
(* them as they are.  An entry of the index is the vector together with    *)
(* `of`, a history field naming the url of the call that added it.         *)
(***************************************************************************)
\* self.dimension = 64
dimension == 64

\* k=5, the default of search
DefaultK == 5

MaxAdds == 2

\* an embedding of n components; component i is base + i, never 0
Emb(n, base) == [i \in 1..n |-> base + i]

\* embeddings shorter than, as long as and longer than the index dimension
Embeddings ==
    { Emb(0, 0), Emb(1, 0), Emb(dimension - 1, 0), Emb(dimension, 0),
      Emb(dimension, 1), Emb(dimension + 1, 0), Emb(2 * dimension, 0) }

\* "ab/", "M_l"
StoredUrls == { <<"a", "b", "/">>, <<"M", "_", "l">> }

\* np.pad(embedding, (0, n)): n zeros after the last component
PadEnd(embedding, n) == embedding \o [i \in 1..n |-> 0]

\* mutation of Resize: the last `dimension` components kept, zeros put in front
ResizeFromEnd(embedding) ==
    IF Len(embedding) # dimension
    THEN IF Len(embedding) > dimension
         THEN SubSeq(embedding, Len(embedding) - dimension + 1, Len(embedding))
         ELSE [i \in 1..(dimension - Len(embedding)) |-> 0] \o embedding
    ELSE embedding

\* lines 38-43 and 63-67: truncate or pad to self.dimension
Resize(embedding) ==
    IF Len(embedding) # dimension
    THEN IF Len(embedding) > dimension
         THEN SubSeq(embedding, 1, dimension)
         ELSE PadEnd(embedding, dimension - Len(embedding))
    ELSE embedding

\* index.add / index.search refuse a row whose length is not the index dimension
WrongDimension(row) == Len(row) # dimension

\* mutation of IndexAdd: a vector already in the index is not added again
IndexAddUnique(idx, row, url) ==
    IF \E i \in DOMAIN idx : idx[i].vector = row THEN idx
    ELSE Append(idx, [vector |-> row, of |-> url])

\* self.index.add(embedding)
IndexAdd(idx, row, url) == Append(idx, [vector |-> row, of |-> url])

\* mutation of UrlsAppend: a url already stored is not stored again
UrlsAppendUnique(us, url) ==
    IF \E i \in DOMAIN us : us[i] = url THEN us ELSE Append(us, url)

\* self.urls.append(url)
UrlsAppend(us, url) == Append(us, url)

\* the squared L2 distance IndexFlatL2 reports
RECURSIVE SumSquares(_, _, _)
SumSquares(a, b, n) ==
    IF n = 0 THEN 0
    ELSE (a[n] - b[n]) * (a[n] - b[n]) + SumSquares(a, b, n - 1)

L2(a, b) == SumSquares(a, b, Len(a))

Min(a, b) == IF a <= b THEN a ELSE b

\* the position and the distance to q of each of the first n vectors
RECURSIVE Candidates(_, _, _)
Candidates(idx, q, n) ==
    IF n = 0 THEN << >>
    ELSE Append(Candidates(idx, q, n - 1),
                [idx |-> n, distance |-> L2(idx[n].vector, q)])

\* one insertion of the ascending sort: x goes after every candidate that is
\* not farther than it
InsertAsc(sorted, x) ==
    LET k == Cardinality({ i \in DOMAIN sorted : sorted[i].distance <= x.distance })
    IN  SubSeq(sorted, 1, k) \o << x >> \o SubSeq(sorted, k + 1, Len(sorted))

RECURSIVE SortByDistance(_)
SortByDistance(seq) ==
    IF seq = << >> THEN << >>
    ELSE InsertAsc(SortByDistance(SubSeq(seq, 1, Len(seq) - 1)), seq[Len(seq)])

\* index.search(q, k): the positions of the k nearest vectors, nearest first
\* (equal distances in index order), with their distances
Nearest(idx, q, k) == SubSeq(SortByDistance(Candidates(idx, q, Len(idx))), 1, k)

\* lines 79-86: the results of a search, one per position that has a url
FormatResults(found, us, query_text) ==
    LET kept == SelectSeq(found, LAMBDA f : f.idx <= Len(us))
    IN  [i \in DOMAIN kept |->
            [url |-> us[kept[i].idx], distance |-> <<kept[i].distance, 1>>,
             query |-> query_text]]

\* FaissMemory.add_to_index(url, embedding), the save included
add_to_index(url, embedding) ==
    /\ Len(index) < MaxAdds
    /\ LET row == Resize(embedding)
       IN  IF WrongDimension(row)
           THEN \* index.add raises: nothing is stored
                /\ last_call' = [op |-> "add", url |-> url, embedding |-> embedding,
                                 used |-> row, outcome |-> "raise", result |-> << >>]
                /\ UNCHANGED <<index, urls, index_file, urls_file>>
           ELSE /\ index' = IndexAdd(index, row, url)
                /\ urls' = UrlsAppend(urls, url)
                /\ index_file' = FileOf(index')
                /\ urls_file' = FileOf(urls')
                /\ last_call' = [op |-> "add", url |-> url, embedding |-> embedding,
                                 used |-> row, outcome |-> "return", result |-> << >>]
    /\ UNCHANGED <<scorerVars, agentVars, appVars>>

\* FaissMemory.search(query_embedding, query_text)
search(query_embedding, query_text) ==
    /\ IF Len(index) = 0
       THEN last_call' = [op |-> "search", url |-> query_text, embedding |-> query_embedding,
                          used |-> << >>, outcome |-> "return", result |-> << >>]
       ELSE LET q == Resize(query_embedding)
            IN  IF WrongDimension(q)
                THEN last_call' = [op |-> "search", url |-> query_text,
                                   embedding |-> query_embedding,
                                   used |-> q, outcome |-> "raise", result |-> << >>]
                ELSE last_call' =
                         [op |-> "search", url |-> query_text, embedding |-> query_embedding,
                          used |-> q, outcome |-> "return",
                          result |-> FormatResults(Nearest(index, q, Min(DefaultK, Len(index))),
                                                   urls, query_text)]
    /\ UNCHANGED <<index, urls, index_file, urls_file>>
    /\ UNCHANGED <<scorerVars, agentVars, appVars>>

\* the scorer constructed and not called
IdleScorer ==
    /\ InitScorer
    /\ results = NoneArg

InitMem ==
    /\ IdleScorer
    /\ InitMemory
    /\ InitThreads({})
    /\ IdleApps

NextMem ==
    \/ \E url \in StoredUrls, embedding \in Embeddings : add_to_index(url, embedding)
    \/ \E embedding \in Embeddings : search(embedding, <<"a", "b">>)

SpecMem == InitMem /\ [][NextMem]_vars

(***************************************************************************)
(* SearchDecision.is_sensitive_url (decision.py)                           *)
(*                                                                         *)
(* A url is given by what the two libraries make of it: `valid` is the     *)
(* verdict of validators.url, `parse_ok` tells whether urlparse returns,   *)
(* and `netloc` is the netloc it returns.                                  *)
(***************************************************************************)
\* self.sensitive_domains
sensitive_domains ==
    { <<"g", "m", "a", "i", "l", ".", "c", "o", "m">>,
      <<"m", "a", "i", "l", ".", "g", "o", "o", "g", "l", "e", ".", "c", "o", "m">>,
      <<"o", "u", "t", "l", "o", "o", "k", ".", "c", "o", "m">>,
      <<"y", "a", "h", "o", "o", ".", "m", "a", "i", "l", ".", "c", "o", "m">>,
      <<"w", "e", "b", ".", "w", "h", "a", "t", "s", "a", "p", "p", ".", "c", "o", "m">>,
      <<"f", "a", "c", "e", "b", "o", "o", "k", ".", "c", "o", "m">>,
      <<"m", "e", "s", "s", "e", "n", "g", "e", "r", ".", "c", "o", "m">>,
      <<"t", "w", "i", "t", "t", "e", "r", ".", "c", "o", "m">>,
      <<"l", "i", "n", "k", "e", "d", "i", "n", ".", "c", "o", "m">>,
      <<"b", "a", "n", "k", "i", "n", "g">>,
      <<"c", "h", "a", "s", "e", ".", "c", "o", "m">>,
      <<"w", "e", "l", "l", "s", "f", "a", "r", "g", "o", ".", "c", "o", "m">>,
      <<"p", "a", "y", "p", "a", "l", ".", "c", "o", "m">> }

\* self.sensitive_patterns; each is a literal text with an escaped dot
sensitive_patterns ==
    { <<"m", "a", "i", "l", ".">>,
      <<"e", "m", "a", "i", "l", ".">>,
      <<"a", "c", "c", "o", "u", "n", "t", ".">>,
      <<"l", "o", "g", "i", "n", ".">>,
      <<"s", "i", "g", "n", "i", "n", ".">>,
      <<"b", "a", "n", "k", "i", "n", "g", ".">>,
      <<"s", "e", "c", "u", "r", "e", ".">>,
      <<"p", "r", "i", "v", "a", "t", "e", ".">> }

\* the urls of the pages sent to /process
PageUrls ==
    { [id |-> "plain",   valid |-> TRUE,  parse_ok |-> TRUE,  netloc |-> <<"e", "x", ".", "o", "r", "g">>],
      [id |-> "dash",    valid |-> TRUE,  parse_ok |-> TRUE,  netloc |-> <<"s", "e", "c", "u", "r", "e", "-", "e", "x", ".", "o", "r", "g">>],
      [id |-> "gmail",   valid |-> TRUE,  parse_ok |-> TRUE,  netloc |-> <<"G", "M", "a", "i", "l", ".", "c", "o", "m">>],
      [id |-> "login",   valid |-> TRUE,  parse_ok |-> TRUE,  netloc |-> <<"L", "o", "g", "i", "n", ".", "e", "x", ".", "o", "r", "g">>],
      [id |-> "invalid", valid |-> FALSE, parse_ok |-> TRUE,  netloc |-> <<"e", "x", ".", "o", "r", "g">>],
      [id |-> "raises",  valid |-> TRUE,  parse_ok |-> FALSE, netloc |-> <<"e", "x", ".", "o", "r", "g">>] }

\* if not validators.url(url)
NotValid(url) == ~url.valid

\* domain = urlparse(url).netloc.lower()
Domain(url) == Lower(url.netloc)

\* any(sensitive in domain for sensitive in self.sensitive_domains)
DomainListed(domain) == \E sensitive \in sensitive_domains : IsSubstr(sensitive, domain)

\* re.search(pattern, domain, re.IGNORECASE) for a literal pattern
ReSearch(pattern, domain) == IsSubstr(Lower(pattern), Lower(domain))

\* any(re.search(pattern, domain, re.IGNORECASE) for pattern in self.sensitive_patterns)
PatternMatches(domain) == \E pattern \in sensitive_patterns : ReSearch(pattern, domain)

\* mutation of ParseErrorVerdict: the except branch returns False
ParseErrorOpen == FALSE

\* except Exception: return True
ParseErrorVerdict == TRUE

\* SearchDecision.is_sensitive_url(url)
is_sensitive_url(url) ==
    IF NotValid(url) THEN TRUE
    ELSE IF ~url.parse_ok THEN ParseErrorVerdict
    ELSE IF DomainListed(Domain(url)) THEN TRUE
    ELSE IF PatternMatches(Domain(url)) THEN TRUE
    ELSE FALSE

(***************************************************************************)
(* The /process route and Agent.process_page (agent.py), step by step per  *)
(* request thread; the store is shared by the threads of the one global    *)
(* Agent.                                                                  *)
(***************************************************************************)
MaxRequests == 3
MaxRestarts == 1

\* what generate_embedding may return: unit vectors of 64 components
PageEmbeddings == { Emb(dimension, 0), Emb(dimension, 1) }

Corrupt == [state |-> "corrupt", data |-> << >>]

\* mutation of Skips: the test of line 35 negated
SkipsInverted(verdict) == ~verdict

\* if self.decision.is_sensitive_url(url): return skipped
Skips(verdict) == verdict

\* a request arrives; the route refuses it when url or content is missing
Receive(t, url) ==
    /\ t \in threads
    /\ tpc[t] \in {"idle", "done"}
    /\ served < MaxRequests
    /\ served' = served + 1
    /\ treq' = [treq EXCEPT ![t] = url]
    /\ tsens' = [tsens EXCEPT ![t] = "none"]
    /\ temb' = [temb EXCEPT ![t] = << >>]
    /\ tsnap' = [tsnap EXCEPT ![t] = [index |-> index, urls |-> urls,
                                      index_file |-> index_file, urls_file |-> urls_file,
                                      embed_calls |-> embed_calls]]
    /\ IF url = NoUrl
       THEN /\ tret' = [tret EXCEPT ![t] = "error 400"]
            /\ tpc' = [tpc EXCEPT ![t] = "done"]
       ELSE /\ tret' = [tret EXCEPT ![t] = "none"]
            /\ tpc' = [tpc EXCEPT ![t] = "check"]
    /\ UNCHANGED <<threads, embed_calls, restarts>>
    /\ UNCHANGED <<scorerVars, memVars, appVars>>

\* process_page, lines 35-36
CheckSensitive(t) ==
    /\ tpc[t] = "check"
    /\ LET verdict == is_sensitive_url(treq[t])
       IN  /\ tsens' = [tsens EXCEPT ![t] = IF verdict THEN "True" ELSE "False"]
           /\ IF Skips(verdict)
              THEN /\ tret' = [tret EXCEPT ![t] = "skipped"]
                   /\ tpc' = [tpc EXCEPT ![t] = "done"]
              ELSE /\ tret' = tret
                   /\ tpc' = [tpc EXCEPT ![t] = "embed"]
    /\ UNCHANGED <<threads, treq, temb, tsnap, embed_calls, served, restarts>>
    /\ UNCHANGED <<scorerVars, memVars, appVars>>

\* process_page, lines 39-42: process_content and generate_embedding
GenerateEmbedding(t) ==
    /\ tpc[t] = "embed"
    /\ \E e \in PageEmbeddings : temb' = [temb EXCEPT ![t] = e]
    /\ embed_calls' = embed_calls + 1
    /\ tpc' = [tpc EXCEPT ![t] = "index_add"]
    /\ UNCHANGED <<threads, treq, tsens, tret, tsnap, served, restarts>>
    /\ UNCHANGED <<scorerVars, memVars, appVars>>

\* add_to_index, lines 38-49: resize and self.index.add
IndexAddStep(t) ==
    /\ tpc[t] = "index_add"
    /\ LET row == Resize(temb[t])
       IN  IF WrongDimension(row)
           THEN /\ tret' = [tret EXCEPT ![t] = "error 500"]
                /\ tpc' = [tpc EXCEPT ![t] = "done"]
                /\ index' = index
           ELSE /\ index' = IndexAdd(index, row, treq[t])
                /\ tpc' = [tpc EXCEPT ![t] = "urls_append"]
                /\ tret' = tret
    /\ UNCHANGED <<urls, index_file, urls_file, last_call>>
    /\ UNCHANGED <<threads, treq, tsens, temb, tsnap, embed_calls, served, restarts>>
    /\ UNCHANGED <<scorerVars, appVars>>

\* add_to_index, line 52
UrlsAppendStep(t) ==
    /\ tpc[t] = "urls_append"
    /\ urls' = UrlsAppend(urls, treq[t])
    /\ tpc' = [tpc EXCEPT ![t] = "write_index"]
    /\ UNCHANGED <<index, index_file, urls_file, last_call>>
    /\ UNCHANGED <<threads, treq, tsens, temb, tret, tsnap, embed_calls, served, restarts>>
    /\ UNCHANGED <<scorerVars, appVars>>

\* save_index, line 29: faiss.write_index
WriteIndex(t) ==
    /\ tpc[t] = "write_index"
    /\ index_file' = FileOf(index)
    /\ tpc' = [tpc EXCEPT ![t] = "write_urls"]
    /\ UNCHANGED <<index, urls, urls_file, last_call>>
    /\ UNCHANGED <<threads, treq, tsens, temb, tret, tsnap, embed_calls, served, restarts>>
    /\ UNCHANGED <<scorerVars, appVars>>

\* save_index, lines 30-31, and the return of process_page
WriteUrls(t) ==
    /\ tpc[t] = "write_urls"
    /\ urls_file' = FileOf(urls)
    /\ tret' = [tret EXCEPT ![t] = "success"]
    /\ tpc' = [tpc EXCEPT ![t] = "done"]
    /\ UNCHANGED <<index, urls, index_file, last_call>>
    /\ UNCHANGED <<threads, treq, tsens, temb, tsnap, embed_calls, served, restarts>>
    /\ UNCHANGED <<scorerVars, appVars>>

\* save_index, lines 29 and 32-33: write_index raises; the error is printed,
\* urls.json is not written, process_page still answers success
WriteIndexFails(t) ==
    /\ tpc[t] = "write_index"
    /\ index_file' \in {index_file, Corrupt}
    /\ tret' = [tret EXCEPT ![t] = "success"]
    /\ tpc' = [tpc EXCEPT ![t] = "done"]
    /\ UNCHANGED <<index, urls, urls_file, last_call>>
    /\ UNCHANGED <<threads, treq, tsens, temb, tsnap, embed_calls, served, restarts>>
    /\ UNCHANGED <<scorerVars, appVars>>

\* save_index, lines 30-33: opening or writing urls.json raises
WriteUrlsFails(t) ==
    /\ tpc[t] = "write_urls"
    /\ urls_file' \in {urls_file, Corrupt}
    /\ tret' = [tret EXCEPT ![t] = "success"]
    /\ tpc' = [tpc EXCEPT ![t] = "done"]
    /\ UNCHANGED <<index, urls, index_file, last_call>>
    /\ UNCHANGED <<threads, treq, tsens, temb, tsnap, embed_calls, served, restarts>>
    /\ UNCHANGED <<scorerVars, appVars>>

\* load_index on a fresh FaissMemory: what self.index and self.urls become
LoadIndex(ifile, ufile) ==
    IF ifile.state = "corrupt"
    THEN \* read_index raises: urls.json is not read
         [index |-> << >>, urls |-> << >>]
    ELSE LET idx == IF ifile.state = "ok" THEN ifile.data ELSE << >>
         IN  IF ufile.state = "ok" THEN [index |-> idx, urls |-> ufile.data]
             ELSE \* no urls.json, or json.load raises
                  [index |-> idx, urls |-> << >>]

\* the process stops, whatever its threads are doing, and is started again:
\* agent = Agent() builds a FaissMemory, which loads the files
CrashAndRestart ==
    /\ restarts < MaxRestarts
    /\ restarts' = restarts + 1
    /\ index' = LoadIndex(index_file, urls_file).index
    /\ urls' = LoadIndex(index_file, urls_file).urls
    /\ tpc' = [t \in Threads |-> "idle"]
    /\ treq' = [t \in Threads |-> NoUrl]
    /\ tsens' = [t \in Threads |-> "none"]
    /\ temb' = [t \in Threads |-> << >>]
    /\ tret' = [t \in Threads |-> "none"]
    /\ tsnap' = [t \in Threads |-> NoSnap]
    /\ UNCHANGED <<index_file, urls_file, last_call, threads, embed_calls, served>>
    /\ UNCHANGED <<scorerVars, appVars>>

RequestStep(t) ==
    \/ \E url \in PageUrls \cup {NoUrl} : Receive(t, url)
    \/ CheckSensitive(t)
    \/ GenerateEmbedding(t)
    \/ IndexAddStep(t)
    \/ UrlsAppendStep(t)
    \/ WriteIndex(t)
    \/ WriteUrls(t)

\* one request at a time
InitAgent ==
    /\ IdleScorer
    /\ InitMemory
    /\ InitThreads({1})
    /\ IdleApps

NextAgent == \E t \in Threads : RequestStep(t)

SpecAgent == InitAgent /\ [][NextAgent]_vars

\* two request threads
InitConc ==
    /\ IdleScorer
    /\ InitMemory
    /\ InitThreads({1, 2})
    /\ IdleApps

NextConc == \E t \in Threads : RequestStep(t)

SpecConc == InitConc /\ [][NextConc]_vars

\* one request at a time, with failing saves and restarts
NextCrash ==
    \/ \E t \in Threads : RequestStep(t)
    \/ \E t \in Threads : WriteIndexFails(t)
    \/ \E t \in Threads : WriteUrlsFails(t)
    \/ CrashAndRestart

SpecCrash == InitAgent /\ [][NextCrash]_vars

(***************************************************************************)
(* Properties                                                              *)
(***************************************************************************)
Returned == pc = "return"

\* C1: every entry of the returned list has confidence >= 0.4, the reported
\* (rounded) one as well as the unrounded one it was admitted with.
C1_ConfidenceAtLeastThreshold ==
    Returned =>
        \A i \in DOMAIN processed_results :
            /\ 2 * processed_results[i].confidence[2]
                   <= 5 * processed_results[i].confidence[1]
            /\ 2 * processed_results[i].highlight_instructions.confidence_threshold[2]
                   <= 5 * processed_results[i].highlight_instructions.confidence_threshold[1]

\* a call that dropped a raw result scoring below 0.4 and kept another
C1_Witness ==
    /\ Returned
    /\ Len(processed_results) = 1
    /\ \E i \in DOMAIN locals : 5 * locals[i].confidence[1] < 2 * locals[i].confidence[2]

\* C2: the returned list is in descending order of the reported confidence.
C2_SortedDescending ==
    Returned =>
        \A i, j \in DOMAIN processed_results :
            i < j => processed_results[j].confidence[1] * processed_results[i].confidence[2]
                         <= processed_results[i].confidence[1] * processed_results[j].confidence[2]

\* a call whose second raw result scores strictly higher than its first, both
\* kept: the sort has exchanged them
C2_Witness ==
    /\ Returned
    /\ Len(processed_results) = 2
    /\ RLt(locals[1].confidence, locals[2].confidence)
    /\ RLt(processed_results[2].confidence, processed_results[1].confidence)
    /\ processed_results[1].url = results.items[2].url
    /\ processed_results[1].url # processed_results[2].url

\* C3: term_score of every returned entry lies in [0, 1].
C3_TermScoreInUnitInterval ==
    Returned =>
        \A i \in DOMAIN processed_results :
            /\ 0 <= processed_results[i].term_score[1]
            /\ processed_results[i].term_score[1] <= processed_results[i].term_score[2]

\* C4: for distance >= 0 the confidence computed for a raw result is in
\* [0, 1], and so is the confidence reported for it.
C4_ConfidenceInUnitInterval ==
    Returned =>
        /\ \A i \in DOMAIN locals :
               results.items[i].distance[1] >= 0 =>
                   /\ 0 <= locals[i].confidence[1]
                   /\ locals[i].confidence[1] <= locals[i].confidence[2]
        /\ \A i \in DOMAIN processed_results :
               /\ 0 <= processed_results[i].confidence[1]
               /\ processed_results[i].confidence[1] <= processed_results[i].confidence[2]

\* a raw result whose weighted sum is above 1 (similarity 1, term match
\* score above 1) and whose confidence is 1
C4_Witness ==
    /\ Returned
    /\ \E i \in DOMAIN locals :
           /\ locals[i].semantic_similarity = <<1, 1>>
           /\ locals[i].term_match_score[1] > locals[i].term_match_score[2]
           /\ locals[i].confidence = <<1, 1>>

\* C5: the returned list has, for every url, as many entries as the input has
\* raw results of that url with confidence >= 0.4, and nothing else.
C5_KeepsExactlyAdmitted ==
    Returned =>
        /\ Len(processed_results) <= Len(results.items)
        /\ \A u \in Urls :
               Cardinality({ i \in DOMAIN processed_results : processed_results[i].url = u })
                 = Cardinality({ i \in DOMAIN locals :
                                    /\ results.items[i].url = u
                                    /\ 2 * locals[i].confidence[2] <= 5 * locals[i].confidence[1] })
        /\ \A i \in DOMAIN processed_results : processed_results[i].url \in Urls

\* a call with two raw results of the same url, one admitted and one not
C5_Witness ==
    /\ Returned
    /\ Len(results.items) = 2
    /\ results.items[1].url = results.items[2].url
    /\ Len(processed_results) = 1
    /\ processed_results[1].url = results.items[1].url

\* the URL cut at every '/', '-', '_' and whitespace character, lower-cased
UrlRuns(url) ==
    Range(SplitWs(Replace(Replace(Replace(Lower(url), "/", " "), "-", " "), "_", " ")))

\* C6: every maximal run of URL characters free of '/', '-', '_' and
\* whitespace is a member of the URL term set.
C6_UrlRunsAreTerms ==
    Returned =>
        \A i \in DOMAIN locals : UrlRuns(results.items[i].url) \subseteq locals[i].url_terms

\* C7: with at least one query term, term_match_score is
\* (exact + 0.5 * partial) / |query_terms|, exact counting the query terms
\* that are URL terms and partial those that are substrings of a URL term.
C7_TermMatchScoreFormula ==
    Returned =>
        \A i \in DOMAIN locals :
            LET Q == locals[i].query_terms
                U == locals[i].url_terms
                E == Cardinality(Q \cap U)
                P == Cardinality({ t \in Q : \E u \in U : IsSubstr(t, u) })
            IN  Q # {} =>
                    /\ locals[i].exact_matches = E
                    /\ locals[i].partial_matches = P
                    /\ locals[i].term_match_score[1] * 2 * Cardinality(Q)
                           = (2 * E + P) * locals[i].term_match_score[2]

\* a raw result with two query terms, one an exact URL term and the other
\* only a substring of one
C7_Witness ==
    /\ Returned
    /\ \E i \in DOMAIN locals :
           /\ Cardinality(locals[i].query_terms) = 2
           /\ locals[i].exact_matches = 1
           /\ locals[i].partial_matches = 2
           /\ locals[i].term_match_score = <<1, 1>>

\* C8: the confidence computed for a raw result is
\* clamp(0.7 * semantic_similarity + 0.3 * term_match_score, 0, 1), and the
\* weights are 0.7 and 0.3 in every state.
C8_ConfidenceFormula ==
    /\ semantic_weight = <<7, 10>>
    /\ term_weight = <<3, 10>>
    /\ Returned =>
           \A i \in DOMAIN locals :
               LET s   == locals[i].semantic_similarity
                   t   == locals[i].term_match_score
                   c   == locals[i].confidence
                   num == 7 * s[1] * t[2] + 3 * t[1] * s[2]
                   den == 10 * s[2] * t[2]
               IN  IF num > den THEN c = <<1, 1>>
                   ELSE IF num < 0 THEN c = <<0, 1>>
                   ELSE c[1] * den = num * c[2]

\* a raw result with a similarity below 1 and a term match score above 0 whose
\* weighted sum is inside (0, 1)
C8_Witness ==
    /\ Returned
    /\ \E i \in DOMAIN locals :
           /\ locals[i].semantic_similarity = <<2, 3>>
           /\ locals[i].term_match_score = <<1, 2>>
           /\ locals[i].confidence = <<37, 60>>

C10_EmptyInputEmptyOutput ==
    (pc # "call" /\ (results.tag # "list" \/ Len(results.items) = 0)) =>
        (pc = "return" /\ processed_results = << >>)

\* a call with None that has returned
C10_Witness ==
    /\ Returned
    /\ results.tag = "None"
    /\ processed_results = << >>

\* the query has no terms: it is empty or all whitespace
NoTerms(query) == \A k \in DOMAIN query : IsSpace(query[k])

\* C11: for a raw result whose query has no terms the call does not raise,
\* term_match_score is 0 and the confidence is 0.7 * semantic_similarity.
C11_NoTermsScoreZero ==
    (pc # "call" /\ results.tag = "list") =>
        \A i \in DOMAIN results.items :
            NoTerms(results.items[i].query) =>
                /\ pc = "return"
                /\ locals[i].query_terms = {}
                /\ locals[i].term_match_score = <<0, 1>>
                /\ 10 * locals[i].confidence[1] * locals[i].semantic_similarity[2]
                       = 7 * locals[i].semantic_similarity[1] * locals[i].confidence[2]

\* a call with an empty query and a whitespace-only query that has returned
C11_Witness ==
    /\ Returned
    /\ Len(results.items) = 2
    /\ results.items[1].query = << >>
    /\ results.items[2].query = << " " >>
    /\ results.items[1].distance = <<1, 2>>
    /\ locals[1].confidence = <<7, 15>>
    /\ locals[2].term_match_score = <<0, 1>>

\* C12: a call with a list of records that carry url, distance >= 0 and query
\* returns; it never ends in an error.
C12_NoErrorOnWellFormed ==
    ( /\ pc # "call"
      /\ results.tag = "list"
      /\ \A i \in DOMAIN results.items :
             /\ results.items[i].distance[1] >= 0
             /\ results.items[i].distance[2] > 0 ) =>
        pc = "return"

\* a call with two records, one at distance 0 and one with an empty query,
\* that has returned an entry
C12_Witness ==
    /\ Returned
    /\ Len(results.items) = 2
    /\ results.items[1].distance = <<0, 1>>
    /\ results.items[2].query = << >>
    /\ Len(processed_results) >= 1

\* C13: a call leaves the threshold, the weights and its argument unchanged,
\* and the list a call returns for an argument is the list every earlier call
\* returned for that argument, whatever calls came in between.
C13_Stateless ==
    [][ /\ min_confidence_threshold' = min_confidence_threshold
        /\ semantic_weight' = semantic_weight
        /\ term_weight' = term_weight
        /\ pc = "call" => results' = results
        /\ pc' = "return" =>
               \A p \in seen' : p[1] = results' => p[2] = processed_results'
      ]_vars

\* a call that has returned a non-empty list for an argument passed before,
\* after a call with another argument that returned a non-empty list too
C13_Witness ==
    /\ Returned
    /\ processed_results # << >>
    /\ \E p \in seen : p[1] = results
    /\ \E q \in seen : q[1] # results /\ q[2] # << >>

\* C14: confidence, semantic_score and term_score of every returned entry
\* are multiples of 0.001.
C14_RoundedToThousandths ==
    Returned =>
        \A i \in DOMAIN processed_results :
            /\ 1000 % processed_results[i].confidence[2] = 0
            /\ 1000 % processed_results[i].semantic_score[2] = 0
            /\ 1000 % processed_results[i].term_score[2] = 0

\* a returned entry whose similarity 2/3 and confidence 7/15 are not
\* multiples of 0.001 and are reported as 0.667 and 0.467
C14_Witness ==
    /\ Returned
    /\ \E i \in DOMAIN processed_results :
           /\ processed_results[i].highlight_instructions.confidence_threshold = <<7, 15>>
           /\ processed_results[i].confidence = <<467, 1000>>
           /\ processed_results[i].semantic_score = <<667, 1000>>

\* C16: on a store that started empty, the url list and the index have the
\* same number of entries, the url at position i is the url passed with the
\* vector at position i, and every add_to_index call appends exactly one
\* entry to each, whether or not the url is already stored.
C16_UrlsFollowIndex ==
    [][ /\ Len(urls') = Len(index')
        /\ \A i \in DOMAIN urls' : urls'[i] = index'[i].of
        /\ (last_call'.op = "add" /\ last_call'.outcome = "return") =>
               /\ Len(index') = Len(index) + 1
               /\ Len(urls') = Len(urls) + 1
               /\ SubSeq(index', 1, Len(index)) = index
               /\ SubSeq(urls', 1, Len(urls)) = urls
               /\ urls'[Len(urls')] = last_call'.url
               /\ index'[Len(index')].of = last_call'.url
      ]_vars

\* the same url stored twice, with two different vectors
C16_Witness ==
    /\ Len(urls) = 2
    /\ Len(index) = 2
    /\ urls[1] = urls[2]
    /\ index[1].vector # index[2].vector
    /\ last_call.op = "add"

\* C19: the vector add_to_index stores and the vector search queries with
\* have exactly 64 components: the first 64 of a longer embedding, a shorter
\* embedding followed by zeros, an embedding of length 64 as it is.
C19_ResizedTo64 ==
    (last_call.op = "add" \/ (last_call.op = "search" /\ Len(index) > 0)) =>
        LET e    == last_call.embedding
            used == last_call.used
        IN  /\ last_call.outcome = "return"
            /\ Len(used) = 64
            /\ Len(e) > 64 => \A i \in 1..64 : used[i] = e[i]
            /\ Len(e) < 64 => /\ \A i \in 1..Len(e) : used[i] = e[i]
                              /\ \A i \in (Len(e) + 1)..64 : used[i] = 0
            /\ Len(e) = 64 => used = e
            /\ last_call.op = "add" => index[Len(index)].vector = used

\* a search with an embedding of 128 components on an index that holds a
\* vector padded from an embedding of one component
C19_Witness ==
    /\ last_call.op = "search"
    /\ Len(last_call.embedding) = 128
    /\ Len(last_call.used) = 64
    /\ Len(index) >= 1
    /\ index[1].vector[1] = 1
    /\ index[1].vector[2] = 0
    /\ last_call.result # << >>

\* C15: a process_page call for which is_sensitive_url returned True answers
\* 'skipped', and the index, the url list, the two files and the number of
\* embeddings generated are what they were when the request arrived.
C15_SensitiveSkipped ==
    \A t \in threads :
        (tpc[t] = "done" /\ tsens[t] = "True") =>
            /\ tret[t] = "skipped"
            /\ index = tsnap[t].index
            /\ urls = tsnap[t].urls
            /\ index_file = tsnap[t].index_file
            /\ urls_file = tsnap[t].urls_file
            /\ embed_calls = tsnap[t].embed_calls

\* a sensitive url skipped by a server that already stores a page
C15_Witness ==
    /\ tpc[1] = "done"
    /\ tsens[1] = "True"
    /\ tret[1] = "skipped"
    /\ treq[1].id = "gmail"
    /\ Len(index) = 1
    /\ urls_file.state = "ok"
    /\ embed_calls = 1

\* C17: with concurrent /process requests, every position of the url list
\* holds the url of the page whose embedding is the vector at that position.
C17_UrlMatchesVector ==
    \A i \in DOMAIN urls : i <= Len(index) /\ index[i].of = urls[i]

\* C18: after a restart the loaded index and url list have the same number
\* of entries and position i of the list is the url of vector i.
C18_ConsistentAfterRestart ==
    [][ restarts' # restarts =>
            /\ Len(index') = Len(urls')
            /\ \A i \in DOMAIN urls' : urls'[i] = index'[i].of
      ]_vars

\* C20: is_sensitive_url returns True for a url that is not valid, for one
\* whose parsing raises, and for one whose domain contains a sensitive domain
\* or matches a sensitive pattern; it returns False for every other url.
C20_FailsClosed ==
    \A t \in threads :
        tsens[t] # "none" =>
            LET url    == treq[t]
                domain == Lower(url.netloc)
            IN  (tsens[t] = "True") = ( \/ ~url.valid
                                        \/ ~url.parse_ok
                                        \/ \E d \in sensitive_domains : IsSubstr(d, domain)
                                        \/ \E q \in sensitive_patterns : IsSubstr(q, domain) )

\* a url that validates but does not parse, reported sensitive and skipped
C20_Witness ==
    /\ tpc[1] = "done"
    /\ treq[1].id = "raises"
    /\ tsens[1] = "True"
    /\ tret[1] = "skipped"

(***************************************************************************)
(* Assignment_6: the movie recommender.  Memory (memory.py), DecisionMaker *)
(* (decision.py) and the loop of main() (main.py).  The Gemini model, the  *)
(* TMDB client and the json library are outside the repository: what they  *)
(* return is chosen from the tables below.  Console output is taken not to *)
(* fail; writing agent_memory.json can fail.                               *)
(***************************************************************************)
\* str.strip()
Strip(s) ==
    IF \A i \in DOMAIN s : IsSpace(s[i]) THEN << >>
    ELSE LET b == CHOOSE j \in DOMAIN s :
                      /\ ~IsSpace(s[j])
                      /\ \A k \in 1..(j - 1) : IsSpace(s[k])
             e == CHOOSE j \in DOMAIN s :
                      /\ ~IsSpace(s[j])
                      /\ \A k \in (j + 1)..Len(s) : IsSpace(s[k])
         IN  SubSeq(s, b, e)

\* str.find(c) for one character: the first position, counted from 0, or -1
Find(s, c) ==
    IF \A i \in DOMAIN s : s[i] # c THEN -1
    ELSE (CHOOSE i \in DOMAIN s : s[i] = c /\ \A k \in 1..(i - 1) : s[k] # c) - 1

\* str.rfind(c) for one character: the last position, counted from 0, or -1
RFind(s, c) ==
    IF \A i \in DOMAIN s : s[i] # c THEN -1
    ELSE (CHOOSE i \in DOMAIN s : s[i] = c /\ \A k \in (i + 1)..Len(s) : s[k] # c) - 1

\* str.count(c) for one character
Count(s, c) == Cardinality({ i \in DOMAIN s : s[i] = c })

\* s[start:end] for 0 <= start
Slice(s, start, end) == SubSeq(s, start + 1, end)

\* "fun", "no fun", "Quit", "quit"
Contexts ==
    { <<"f", "u", "n">>,
      <<"n", "o", " ", "f", "u", "n">>,
      <<"Q", "u", "i", "t">>,
      <<"q", "u", "i", "t">> }

MemoryItem(timestamp, context, action_taken, rating) ==
    [timestamp |-> timestamp, context |-> context, action_taken |-> action_taken,
     success_rating |-> rating]

\* agent_memory.json when the program starts: absent or empty, or one item
\* of an earlier session (timestamp 0, rated 4 of 5)
StoredFiles ==
    { << >>,
      << MemoryItem(0, <<"f", "u", "n">>, "Here are your movie recommendations", <<4, 5>>) >> }

\* get_relevant_memories: limit = 5
MemoryLimit == 5

\* sum(word in memory.context.lower() for word in context.lower().split())
Relevance(memory, context) ==
    LET words == SplitWs(Lower(context))
    IN  Cardinality({ i \in DOMAIN words : IsSubstr(words[i], Lower(memory.context)) })

RECURSIVE InsertByRelevance(_, _, _)
InsertByRelevance(sorted, memory, context) ==
    IF sorted = << >> THEN << memory >>
    ELSE IF Relevance(Head(sorted), context) >= Relevance(memory, context)
         THEN << Head(sorted) >> \o InsertByRelevance(Tail(sorted), memory, context)
         ELSE << memory >> \o sorted

\* scored_memories.sort(key=lambda x: x[1], reverse=True): stable
RECURSIVE SortByRelevance(_, _)
SortByRelevance(mems, context) ==
    IF mems = << >> THEN << >>
    ELSE InsertByRelevance(SortByRelevance(SubSeq(mems, 1, Len(mems) - 1), context),
                           mems[Len(mems)], context)

\* Memory.get_relevant_memories: the relevant_memories of its MemoryOutput
get_relevant_memories(mems, context) ==
    LET sorted == SortByRelevance(mems, context)
    IN  SubSeq(sorted, 1, IF Len(sorted) < MemoryLimit THEN Len(sorted) ELSE MemoryLimit)

\* Memory.add_memory, line 30
AddMemory(mems, item) == Append(mems, item)

(***************************************************************************)
(* DecisionMaker.make_decision                                             *)
(***************************************************************************)
\* answers of the Gemini model that are JSON objects
GeminiTexts ==
    [ missing |->
      \* {"confidence":1,"reasoning":"r"}
      <<"{", "\"", "c", "o", "n", "f", "i", "d", "e", "n", "c", "e", "\"", ":", "1", ",", "\"",
      "r", "e", "a", "s", "o", "n", "i", "n", "g", "\"", ":", "\"", "r", "\"", "}">>,
      no_movies |->
      \* {"confidence":1,"reasoning":"r","recommendations":[]}
      <<"{", "\"", "c", "o", "n", "f", "i", "d", "e", "n", "c", "e", "\"", ":", "1", ",", "\"",
      "r", "e", "a", "s", "o", "n", "i", "n", "g", "\"", ":", "\"", "r", "\"", ",", "\"", "r",
      "e", "c", "o", "m", "m", "e", "n", "d", "a", "t", "i", "o", "n", "s", "\"", ":", "[", "]",
      "}">>,
      one_movie |->
      \* {"confidence":0.9,"reasoning":"r","recommendations":[{"title":"T","year":1,"genre":"G","rating":1,"description":"d","why":"w"}]}
      <<"{", "\"", "c", "o", "n", "f", "i", "d", "e", "n", "c", "e", "\"", ":", "0", ".", "9",
      ",", "\"", "r", "e", "a", "s", "o", "n", "i", "n", "g", "\"", ":", "\"", "r", "\"", ",",
      "\"", "r", "e", "c", "o", "m", "m", "e", "n", "d", "a", "t", "i", "o", "n", "s", "\"",
      ":", "[", "{", "\"", "t", "i", "t", "l", "e", "\"", ":", "\"", "T", "\"", ",", "\"", "y",
      "e", "a", "r", "\"", ":", "1", ",", "\"", "g", "e", "n", "r", "e", "\"", ":", "\"", "G",
      "\"", ",", "\"", "r", "a", "t", "i", "n", "g", "\"", ":", "1", ",", "\"", "d", "e", "s",
      "c", "r", "i", "p", "t", "i", "o", "n", "\"", ":", "\"", "d", "\"", ",", "\"", "w", "h",
      "y", "\"", ":", "\"", "w", "\"", "}", "]", "}">>,
      empty_movie |->
      \* {"confidence":1,"reasoning":"r","recommendations":[{}]}
      <<"{", "\"", "c", "o", "n", "f", "i", "d", "e", "n", "c", "e", "\"", ":", "1", ",", "\"",
      "r", "e", "a", "s", "o", "n", "i", "n", "g", "\"", ":", "\"", "r", "\"", ",", "\"", "r",
      "e", "c", "o", "m", "m", "e", "n", "d", "a", "t", "i", "o", "n", "s", "\"", ":", "[", "{",
      "}", "]", "}">>,
      text_confidence |->
      \* {"confidence":"x","reasoning":"r","recommendations":[]}
      <<"{", "\"", "c", "o", "n", "f", "i", "d", "e", "n", "c", "e", "\"", ":", "\"", "x", "\"",
      ",", "\"", "r", "e", "a", "s", "o", "n", "i", "n", "g", "\"", ":", "\"", "r", "\"", ",",
      "\"", "r", "e", "c", "o", "m", "m", "e", "n", "d", "a", "t", "i", "o", "n", "s", "\"",
      ":", "[", "]", "}">>,
      number_movie |->
      \* {"confidence":1,"reasoning":"r","recommendations":[1]}
      <<"{", "\"", "c", "o", "n", "f", "i", "d", "e", "n", "c", "e", "\"", ":", "1", ",", "\"",
      "r", "e", "a", "s", "o", "n", "i", "n", "g", "\"", ":", "\"", "r", "\"", ",", "\"", "r",
      "e", "c", "o", "m", "m", "e", "n", "d", "a", "t", "i", "o", "n", "s", "\"", ":", "[", "1",
      "]", "}">>,
      brace_in_text |->
      \* {"confidence":1,"reasoning":"{","recommendations":[]}
      <<"{", "\"", "c", "o", "n", "f", "i", "d", "e", "n", "c", "e", "\"", ":", "1", ",", "\"",
      "r", "e", "a", "s", "o", "n", "i", "n", "g", "\"", ":", "\"", "{", "\"", ",", "\"", "r",
      "e", "c", "o", "m", "m", "e", "n", "d", "a", "t", "i", "o", "n", "s", "\"", ":", "[", "]",
      "}">> ]

RequiredFields == {"confidence", "reasoning", "recommendations"}

MovieFields == {"title", "year", "genre", "rating", "description", "why"}

JsonError == [ok |-> FALSE, keys |-> {}, confidence |-> "none", recommendations |-> << >>]

JsonObject(keys, confidence, recommendations) ==
    [ok |-> TRUE, keys |-> keys, confidence |-> confidence,
     recommendations |-> recommendations]

MovieObject(keys, title) == [isdict |-> TRUE, keys |-> keys, title |-> title]

\* json.loads on the texts above; every other text of the model is not JSON
DecisionJson ==
    { <<GeminiTexts.missing, JsonObject({"confidence", "reasoning"}, "number", << >>)>>,
      <<GeminiTexts.no_movies, JsonObject(RequiredFields, "number", << >>)>>,
      <<GeminiTexts.one_movie, JsonObject(RequiredFields, "number", << MovieObject(MovieFields, "T") >>)>>,
      <<GeminiTexts.empty_movie, JsonObject(RequiredFields, "number", << MovieObject({}, "") >>)>>,
      <<GeminiTexts.text_confidence, JsonObject(RequiredFields, "text", << >>)>>,
      <<GeminiTexts.number_movie, JsonObject(RequiredFields, "number",
                                    << [isdict |-> FALSE, keys |-> {}, title |-> ""] >>)>>,
      <<GeminiTexts.brace_in_text, JsonObject(RequiredFields, "number", << >>)>> }

JsonLoads(text) ==
    IF \E e \in DecisionJson : e[1] = text
    THEN (CHOOSE e \in DecisionJson : e[1] = text)[2]
    ELSE JsonError

Response(text) == [raises |-> FALSE, text |-> text]

\* what self.model.generate_content does: it raises, or returns one of: "",
\* "no", "}{", "{{}", "{x}", the JSON texts above, and the one-movie answer
\* with a line of text before and after it
GeminiResponses ==
    { [raises |-> TRUE, text |-> << >>],
      Response(<< >>),
      Response(<<"n", "o">>),
      Response(<<"}", "{">>),
      Response(<<"{", "{", "}">>),
      Response(<<"{", "x", "}">>),
      Response(GeminiTexts.missing),
      Response(GeminiTexts.no_movies),
      Response(GeminiTexts.one_movie),
      Response(<<"j", "s", "o", "n", "\n">> \o GeminiTexts.one_movie \o <<"\n", "o", "k", "\n">>),
      Response(GeminiTexts.empty_movie),
      Response(GeminiTexts.text_confidence),
      Response(GeminiTexts.number_movie),
      Response(GeminiTexts.brace_in_text) }

\* "Comedy", "ACTION", "drama", "Horror"
GenreLists ==
    { << >>,
      << <<"C", "o", "m", "e", "d", "y">> >>,
      << <<"A", "C", "T", "I", "O", "N">>, <<"d", "r", "a", "m", "a">> >>,
      << <<"H", "o", "r", "r", "o", "r">> >> }

\* the two argument types make_decision accepts
PerceptionOutput(context) ==
    [kind |-> "PerceptionOutput", current_context |-> context, favorite_genres |-> << >>]

DecisionInput(context, genres) ==
    [kind |-> "DecisionInput", current_context |-> context, favorite_genres |-> genres]

DecisionInputs ==
    { PerceptionOutput(<<"f", "u", "n">>) }
        \cup { DecisionInput(<<"f", "u", "n">>, g) : g \in GenreLists }

\* lines 42-55: the user's preferences, or the stand-in built for a PerceptionOutput
UserGenres(input) ==
    IF input.kind = "DecisionInput" THEN input.favorite_genres ELSE << >>

\* any('comedy' in genre.lower() for genre in genres)
AnyGenre(word, genres) == \E i \in DOMAIN genres : IsSubstr(word, Lower(genres[i]))

\* mutation of FallbackMovies: the default recommendation of lines 190-199 left out
FallbackMoviesNoDefault(genres) ==
    (IF AnyGenre(<<"c", "o", "m", "e", "d", "y">>, genres)
        THEN << "The Grand Budapest Hotel" >> ELSE << >>)
    \o (IF AnyGenre(<<"a", "c", "t", "i", "o", "n">>, genres)
        THEN << "Mad Max: Fury Road" >> ELSE << >>)
    \o (IF AnyGenre(<<"d", "r", "a", "m", "a">>, genres)
        THEN << "The Shawshank Redemption" >> ELSE << >>)

\* _get_fallback_recommendation, lines 155-199: the titles recommended
FallbackMovies(genres) ==
    LET by_genre ==
            (IF AnyGenre(<<"c", "o", "m", "e", "d", "y">>, genres)
                THEN << "The Grand Budapest Hotel" >> ELSE << >>)
            \o (IF AnyGenre(<<"a", "c", "t", "i", "o", "n">>, genres)
                THEN << "Mad Max: Fury Road" >> ELSE << >>)
            \o (IF AnyGenre(<<"d", "r", "a", "m", "a">>, genres)
                THEN << "The Shawshank Redemption" >> ELSE << >>)
    IN  IF by_genre = << >> THEN << "Forrest Gump" >> ELSE by_genre

\* the DecisionOutput; relevant_memories is history: what line 58 obtained
DecisionOutput(movies, fallback_used, reasoning_type, relevant) ==
    [raised |-> FALSE, recommended_movies |-> movies, fallback_used |-> fallback_used,
     reasoning_type |-> reasoning_type, relevant_memories |-> relevant]

\* _get_fallback_recommendation
get_fallback_recommendation(genres, relevant) ==
    DecisionOutput(FallbackMovies(genres), TRUE, "fallback", relevant)

\* lines 109-117: the first recommendation that cannot be converted
MovieError(recs) ==
    IF \A i \in DOMAIN recs : recs[i].isdict /\ MovieFields \subseteq recs[i].keys
    THEN "none"
    ELSE LET i == CHOOSE j \in DOMAIN recs :
                      /\ ~(recs[j].isdict /\ MovieFields \subseteq recs[j].keys)
                      /\ \A k \in 1..(j - 1) :
                             recs[k].isdict /\ MovieFields \subseteq recs[k].keys
         IN  IF recs[i].isdict THEN "KeyError" ELSE "TypeError"

\* lines 80-136 without the handlers: the exception raised, or "none", and
\* the movies of the answer
ParseResponse(response) ==
    LET response_text == Strip(response.text)
        start == Find(response_text, "{")
        end == RFind(response_text, "}")
        sliced == Slice(response_text, start, end + 1)
        result == JsonLoads(sliced)
        Raise(exc) == [exc |-> exc, movies |-> << >>]
    IN  IF response.raises THEN Raise("APIError")
        ELSE IF response.text = << >> THEN Raise("empty")
        ELSE IF ~(start >= 0 /\ end > start) THEN Raise("JSONDecodeError")
        ELSE IF Count(sliced, "{") # Count(sliced, "}") THEN Raise("JSONDecodeError")
        ELSE IF ~result.ok THEN Raise("JSONDecodeError")
        ELSE IF ~(RequiredFields \subseteq result.keys) THEN Raise("KeyError")
        ELSE IF MovieError(result.recommendations) # "none"
             THEN Raise(MovieError(result.recommendations))
        ELSE IF result.confidence # "number" THEN Raise("ValueError")
        ELSE [exc |-> "none",
              movies |-> [i \in DOMAIN result.recommendations |->
                              result.recommendations[i].title]]

\* line 138: except (json.JSONDecodeError, KeyError), around lines 85-136
InnerHandler == {"JSONDecodeError", "KeyError"}

\* line 146: except Exception, around the whole body; every exception of the
\* model derives from Exception
OuterHandler == {"APIError", "JSONDecodeError", "KeyError", "TypeError", "ValueError"}

\* make_decision: an exception of the inner handler falls through to line
\* 144, as an empty response does; one of the outer handler reaches line 148
make_decision(input, response, mems) ==
    LET relevant == get_relevant_memories(mems, input.current_context)
        parsed == ParseResponse(response)
    IN  IF parsed.exc = "none"
        THEN DecisionOutput(parsed.movies, FALSE, "recommendation", relevant)
        ELSE IF \/ parsed.exc = "empty"
                \/ parsed.exc # "APIError" /\ parsed.exc \in InnerHandler
                \/ parsed.exc \in OuterHandler
        THEN get_fallback_recommendation(UserGenres(input), relevant)
        ELSE [raised |-> TRUE, recommended_movies |-> << >>, fallback_used |-> FALSE,
              reasoning_type |-> parsed.exc, relevant_memories |-> relevant]

\* one make_decision call on a DecisionMaker whose memory was loaded from the file
InitDecision ==
    /\ IdleScorer
    /\ InitMemory
    /\ InitThreads({})
    /\ IdlePaint
    /\ IdleShare
    /\ memory_file \in StoredFiles
    /\ memories = << >>
    /\ dm_memories = memory_file
    /\ mpc = "decide"
    /\ current_context = << >>
    /\ input_data \in DecisionInputs
    /\ gemini_response \in GeminiResponses
    /\ decision_output = NoDecision
    /\ action_output = NoAction
    /\ success_rating = NoRating
    /\ now = 1
    /\ asked = 0
    /\ added = 0

MakeDecision ==
    /\ mpc = "decide"
    /\ decision_output' = make_decision(input_data, gemini_response, dm_memories)
    /\ mpc' = "decided"
    /\ UNCHANGED <<memory_file, memories, dm_memories, current_context, input_data,
                   gemini_response, action_output, success_rating, now, asked, added>>
    /\ UNCHANGED <<scorerVars, memVars, agentVars, paintVars, shareVars>>

NextDecision == MakeDecision

SpecDecision == InitDecision /\ [][NextDecision]_vars

(***************************************************************************)
(* Properties of Assignment_6                                              *)
(***************************************************************************)
\* the response text holds a JSON object with the three required fields
HasDecisionObject(text) ==
    \E a, b \in DOMAIN text :
        /\ text[a] = "{"
        /\ text[b] = "}"
        /\ JsonLoads(SubSeq(text, a, b)).ok
        /\ RequiredFields \subseteq JsonLoads(SubSeq(text, a, b)).keys

\* C24: make_decision never raises.  It returns fallback_used = False only
\* when the model answered with a text that holds a parseable JSON object
\* with confidence, reasoning and recommendations; when the call failed or
\* the text holds no such object it returns the fallback, and every fallback
\* has fallback_used = True and at least one recommended movie.
C24_FallbackOnEveryError ==
    mpc = "decided" =>
        LET usable == /\ ~gemini_response.raises
                      /\ HasDecisionObject(gemini_response.text)
        IN  /\ ~decision_output.raised
            /\ ~decision_output.fallback_used => usable
            /\ ~usable => decision_output.fallback_used
            /\ decision_output.fallback_used =>
                   /\ decision_output.reasoning_type = "fallback"
                   /\ decision_output.recommended_movies # << >>

\* the Gemini call raised and the caller has no favourite genre: the default
\* fallback movie is returned
C24_Witness ==
    /\ mpc = "decided"
    /\ gemini_response.raises
    /\ input_data.kind = "DecisionInput"
    /\ decision_output.fallback_used
    /\ decision_output.recommended_movies = << "Forrest Gump" >>

(***************************************************************************)
(* main() of Assignment_6, from line 53: one action for each stretch of    *)
(* the loop between two reads of the console                               *)
(***************************************************************************)
MaxAsked == 2

\* the character U+00B2 (superscript two): str.isdigit() accepts it, float() does not
Sup2 == "^2"

AsciiDigits == <<"0", "1", "2", "3", "4", "5", "6", "7", "8", "9">>

\* what the user may type at the rating prompt: "", "3", " 5 ", "7", "x", "4.5", U+00B2
RatingInputs ==
    { << >>,
      <<"3">>,
      <<" ", "5", " ">>,
      <<"7">>,
      <<"x">>,
      <<"4", ".", "5">>,
      <<Sup2>> }

\* str.isdigit()
IsDigit(s) == s # << >> /\ \A i \in DOMAIN s : s[i] \in Range(AsciiDigits) \cup {Sup2}

\* float(s) raises ValueError
FloatRaises(s) == \E i \in DOMAIN s : s[i] \notin Range(AsciiDigits)

DigitValue(c) == (CHOOSE d \in DOMAIN AsciiDigits : AsciiDigits[d] = c) - 1

\* float(s) for a string of ASCII digits
RECURSIVE FloatOfDigits(_)
FloatOfDigits(s) ==
    IF s = << >> THEN 0
    ELSE 10 * FloatOfDigits(SubSeq(s, 1, Len(s) - 1)) + DigitValue(s[Len(s)])

\* line 111: float(rating_input) / 5.0
RatingOf(rating_input) == Rat(FloatOfDigits(rating_input), 5)

\* what generate_content does in a session: it raises, answers with one
\* movie, or answers with nothing
SessionResponses ==
    { [raises |-> TRUE, text |-> << >>], Response(GeminiTexts.one_movie), Response(<< >>) }

\* Action.execute: the TMDB requests succeed, or one raises and line 94 catches it
execute(decision, tmdb_ok) ==
    IF tmdb_ok
    THEN [success_status |-> TRUE, details |-> "Here are your movie recommendations"]
    ELSE [success_status |-> FALSE, details |-> "Error fetching movie details"]

\* lines 53-57: DecisionMaker() and Memory() each load agent_memory.json
InitMovie ==
    /\ IdleScorer
    /\ InitMemory
    /\ InitThreads({})
    /\ IdlePaint
    /\ IdleShare
    /\ memory_file \in StoredFiles
    /\ dm_memories = memory_file
    /\ memories = memory_file
    /\ mpc = "prompt"
    /\ current_context = << >>
    /\ input_data = NoInput
    /\ gemini_response = NoResponse
    /\ decision_output = NoDecision
    /\ action_output = NoAction
    /\ success_rating = NoRating
    /\ now = 1
    /\ asked = 0
    /\ added = 0

\* lines 71-74
ReadContext(context) ==
    /\ mpc = "prompt"
    /\ IF Lower(context) = <<"q", "u", "i", "t">>
       THEN /\ mpc' = "exit"
            /\ UNCHANGED <<current_context, asked, added>>
       ELSE /\ asked < MaxAsked
            /\ current_context' = context
            /\ asked' = asked + 1
            /\ added' = 0
            /\ mpc' = "flow"
    /\ UNCHANGED <<memory_file, memories, dm_memories, input_data, gemini_response,
                   decision_output, action_output, success_rating, now>>
    /\ UNCHANGED <<scorerVars, memVars, agentVars, paintVars, shareVars>>

\* lines 79-107: memory.get_relevant_memories is only printed; perception.analyze
\* returns a PerceptionOutput with the request in both of its branches
Recommend(response, tmdb_ok) ==
    /\ mpc = "flow"
    /\ input_data' = PerceptionOutput(current_context)
    /\ gemini_response' = response
    /\ decision_output' = make_decision(input_data', response, dm_memories)
    /\ action_output' = execute(decision_output', tmdb_ok)
    /\ success_rating' = NoRating
    /\ mpc' = IF action_output'.success_status THEN "rate" ELSE "store"
    /\ UNCHANGED <<memory_file, memories, dm_memories, current_context, now, asked, added>>
    /\ UNCHANGED <<scorerVars, memVars, agentVars, paintVars, shareVars>>

\* lines 108-111
AskRating(typed) ==
    /\ mpc = "rate"
    /\ LET rating_input == Strip(typed)
       IN  IF rating_input # << >> /\ IsDigit(rating_input)
           THEN IF FloatRaises(rating_input)
                THEN /\ mpc' = "except"
                     /\ UNCHANGED success_rating
                ELSE /\ success_rating' = RatingOf(rating_input)
                     /\ mpc' = "store"
           ELSE /\ mpc' = "store"
                /\ UNCHANGED success_rating
    /\ UNCHANGED <<memory_file, memories, dm_memories, current_context, input_data,
                   gemini_response, decision_output, action_output, now, asked, added>>
    /\ UNCHANGED <<scorerVars, memVars, agentVars, paintVars, shareVars>>

\* lines 113-126: add_memory appends and saves; when the write fails the
\* exception reaches line 128 with the item already in the list
StoreInteraction(written) ==
    /\ mpc = "store"
    /\ memories' = AddMemory(memories, MemoryItem(now, current_context,
                                                   action_output.details, success_rating))
    /\ now' = now + 1
    /\ added' = added + 1
    /\ IF written
       THEN /\ memory_file' = memories'
            /\ mpc' = "prompt"
       ELSE /\ mpc' = "except"
            /\ UNCHANGED memory_file
    /\ UNCHANGED <<dm_memories, current_context, input_data, gemini_response,
                   decision_output, action_output, success_rating, asked>>
    /\ UNCHANGED <<scorerVars, memVars, agentVars, paintVars, shareVars>>

\* lines 128-135: when this write fails the exception leaves main()
StoreFailure(written) ==
    /\ mpc = "except"
    /\ memories' = AddMemory(memories, MemoryItem(now, current_context,
                                                   "Error occurred", Zero))
    /\ now' = now + 1
    /\ added' = added + 1
    /\ IF written
       THEN /\ memory_file' = memories'
            /\ mpc' = "prompt"
       ELSE /\ mpc' = "crashed"
            /\ UNCHANGED memory_file
    /\ UNCHANGED <<dm_memories, current_context, input_data, gemini_response,
                   decision_output, action_output, success_rating, asked>>
    /\ UNCHANGED <<scorerVars, memVars, agentVars, paintVars, shareVars>>

NextMovie ==
    \/ \E context \in Contexts : ReadContext(context)
    \/ \E response \in SessionResponses, tmdb_ok \in BOOLEAN : Recommend(response, tmdb_ok)
    \/ \E typed \in RatingInputs : AskRating(typed)
    \/ \E written \in BOOLEAN : StoreInteraction(written)
    \/ \E written \in BOOLEAN : StoreFailure(written)

SpecMovie == InitMovie /\ [][NextMovie]_vars

\* C21: when make_decision has run for a request, every item main() stored
\* for an earlier request of the session (timestamp 1 or later) is among the
\* memories that call obtained from get_relevant_memories.
C21_StoredItemsConsulted ==
    mpc \in {"rate", "store"} =>
        \A i \in DOMAIN memories :
            memories[i].timestamp >= 1 =>
                \E j \in DOMAIN decision_output.relevant_memories :
                    decision_output.relevant_memories[j] = memories[i]

\* C22: every success_rating in the memory list of main() is None or lies
\* between 0 and 1.
C22_RatingInUnitInterval ==
    \A i \in DOMAIN memories :
        \/ memories[i].success_rating = NoRating
        \/ /\ RLeq(Zero, memories[i].success_rating)
           /\ RLeq(memories[i].success_rating, One)

\* C23: when main() has finished with a request and is back at its prompt,
\* exactly one add_memory call was made for that request, the list on disk
\* is the list in memory, and an item stored by the error handler has
\* success_rating 0.0.
C23_OneItemPerRequest ==
    (asked > 0 /\ mpc \in {"prompt", "exit"}) =>
        /\ added = 1
        /\ memory_file = memories
        /\ memories[Len(memories)].action_taken = "Error occurred" =>
               memories[Len(memories)].success_rating = Zero

(***************************************************************************)
(* Assignment_4: get_paint_actions (paint_agent.py).  What the Gemini      *)
(* model answers, and what json.loads makes of it, is chosen from the      *)
(* tables below.                                                           *)
(***************************************************************************)
\* answers of the Gemini model that are JSON objects
LlmTexts ==
    [ empty |->
      \* {"actions":[]}
      <<"{", "\"", "a", "c", "t", "i", "o", "n", "s", "\"", ":", "[", "]", "}">>,
      one_click |->
      \* {"actions":[{"type":"click","x":1,"y":2,"delay":1}]}
      <<"{", "\"", "a", "c", "t", "i", "o", "n", "s", "\"", ":", "[", "{", "\"", "t", "y", "p",
      "e", "\"", ":", "\"", "c", "l", "i", "c", "k", "\"", ",", "\"", "x", "\"", ":", "1", ",",
      "\"", "y", "\"", ":", "2", ",", "\"", "d", "e", "l", "a", "y", "\"", ":", "1", "}", "]",
      "}">>,
      steps |->
      \* {"steps":[]}
      <<"{", "\"", "s", "t", "e", "p", "s", "\"", ":", "[", "]", "}">>,
      click |->
      \* {"type":"click"}
      <<"{", "\"", "t", "y", "p", "e", "\"", ":", "\"", "c", "l", "i", "c", "k", "\"", "}">> ]

PaintJsonError == [ok |-> FALSE, isdict |-> FALSE, keys |-> {}, actions |-> << >>]

Mouse(type, x, y, delay) == [type |-> type, x |-> x, y |-> y, delay |-> delay]

TypeKeys(keys, delay) == [type |-> "type", keys |-> keys, delay |-> delay]

\* delays of 0.5 and 1.0 seconds
Half == <<1, 2>>

\* json.loads on the texts above; every other text of the model is not JSON
PaintJson ==
    { <<LlmTexts.empty, [ok |-> TRUE, isdict |-> TRUE, keys |-> {"actions"}, actions |-> << >>]>>,
      <<LlmTexts.one_click, [ok |-> TRUE, isdict |-> TRUE, keys |-> {"actions"},
                          actions |-> << Mouse("click", 1, 2, One) >>]>>,
      <<LlmTexts.steps, [ok |-> TRUE, isdict |-> TRUE, keys |-> {"steps"}, actions |-> << >>]>>,
      <<LlmTexts.click, [ok |-> TRUE, isdict |-> TRUE, keys |-> {"type"}, actions |-> << >>]>> }

PaintJsonLoads(text) ==
    IF \E e \in PaintJson : e[1] = text
    THEN (CHOOSE e \in PaintJson : e[1] = text)[2]
    ELSE PaintJsonError

\* what get_llm_response does: it raises (timeout, API error), or returns the
\* stripped text: "", "[1]", "}{", an unfinished object, the four JSON texts
\* above, the one-click answer with text around it or after it, and a JSON
\* list holding one object
LlmResponses ==
    { [raises |-> TRUE, text |-> << >>],
      Response(<< >>),
      Response(<<"[", "1", "]">>),
      Response(<<"}", "{">>),
      Response(SubSeq(LlmTexts.one_click, 1, 12)),
      Response(LlmTexts.empty),
      Response(LlmTexts.one_click),
      Response(LlmTexts.steps),
      Response(<<"o", "k", " ">> \o LlmTexts.one_click \o <<" ", ".">>),
      Response(LlmTexts.one_click \o <<" ", "o", "k">>),
      Response(<<"o", "k", " ">> \o LlmTexts.empty),
      Response(<<"[">> \o LlmTexts.click \o <<"]">>) }

\* the calls made: operation and keyword arguments
PaintCalls ==
    { <<"draw_rectangle", [NoKwargs EXCEPT !.x1 = 200, !.y1 = 200, !.x2 = 600, !.y2 = 500]>>,
      <<"draw_rectangle", [NoKwargs EXCEPT !.x2 = 10, !.y2 = 10]>>,
      <<"add_text", [NoKwargs EXCEPT !.text = <<"h", "i">>, !.x = 400, !.y = 300]>>,
      <<"add_text", [NoKwargs EXCEPT !.x = 5, !.y = 5]>>,
      <<"open_paint", NoKwargs>> }

\* lines 102-110 and 127-135
DefaultRectangle(kw) ==
    << Mouse("click", 535, 95, One), Mouse("click", 755, 82, One), Mouse("click", 1207, 195, One),
       Mouse("click", kw.x1, kw.y1, Half), Mouse("press", kw.x1, kw.y1, One),
       Mouse("move", kw.x2, kw.y2, One), Mouse("release", kw.x2, kw.y2, One) >>

\* lines 113-118 and 139-144
DefaultText(kw) ==
    << Mouse("click", 341, 95, One), Mouse("click", kw.x, kw.y, One), TypeKeys(kw.text, One),
       Mouse("click", 50, 50, Half) >>

Returns(actions) == [kind |-> "return", exc |-> "none", actions |-> actions]

Raises(exc) == [kind |-> "raise", exc |-> exc, actions |-> << >>]

\* lines 80-97 without the handler: the exception raised, or "none", and the
\* parsed object
ParseActions(response) ==
    LET stripped == Strip(response.text)
        start == Find(stripped, "{")
        end == RFind(stripped, "}") + 1
        cleaned == IF stripped # << >> /\ stripped[1] = "{" THEN stripped
                   ELSE Slice(stripped, start, end)
        loaded == PaintJsonLoads(cleaned)
    IN  IF response.raises THEN [exc |-> "LLMError", data |-> PaintJsonError]
        ELSE IF ~(stripped # << >> /\ stripped[1] = "{") /\ ~(start # -1 /\ end # 0)
             THEN [exc |-> "JSONDecodeError", data |-> PaintJsonError]
        ELSE IF ~loaded.ok THEN [exc |-> "JSONDecodeError", data |-> PaintJsonError]
        ELSE IF ~loaded.isdict \/ "actions" \notin loaded.keys
             THEN [exc |-> "ValueError", data |-> loaded]
        ELSE [exc |-> "none", data |-> loaded]

\* line 122: except json.JSONDecodeError
PaintHandler == {"JSONDecodeError"}

\* get_paint_actions
get_paint_actions(op, kw, response) ==
    LET parsed == ParseActions(response)
    IN  IF parsed.exc = "none"
        THEN \* lines 100-120
             IF op = "draw_rectangle" /\ parsed.data.actions = << >>
             THEN Returns(DefaultRectangle(kw))
             ELSE IF op = "add_text" /\ parsed.data.actions = << >>
             THEN Returns(DefaultText(kw))
             ELSE Returns(parsed.data.actions)
        ELSE IF parsed.exc \in PaintHandler
        THEN \* lines 122-147
             IF op = "draw_rectangle" THEN Returns(DefaultRectangle(kw))
             ELSE IF op = "add_text" THEN Returns(DefaultText(kw))
             ELSE Raises(parsed.exc)
        ELSE Raises(parsed.exc)

\* one get_paint_actions call
InitPaint ==
    /\ IdleScorer
    /\ InitMemory
    /\ InitThreads({})
    /\ IdleMovie
    /\ IdleShare
    /\ ppc = "call"
    /\ \E call \in PaintCalls : operation = call[1] /\ kwargs = call[2]
    /\ llm_response \in LlmResponses
    /\ actions_data = NoActions

GetPaintActions ==
    /\ ppc = "call"
    /\ actions_data' = get_paint_actions(operation, kwargs, llm_response)
    /\ ppc' = "done"
    /\ UNCHANGED <<operation, kwargs, llm_response>>
    /\ UNCHANGED <<scorerVars, memVars, agentVars, movieVars, shareVars>>

NextPaint == GetPaintActions

SpecPaint == InitPaint /\ [][NextPaint]_vars

(***************************************************************************)
(* Properties of Assignment_4                                              *)
(***************************************************************************)
\* the response text holds a JSON object with a non-empty actions array
HasActionList(text) ==
    \E a, b \in DOMAIN text :
        /\ text[a] = "{"
        /\ text[b] = "}"
        /\ PaintJsonLoads(SubSeq(text, a, b)).ok
        /\ "actions" \in PaintJsonLoads(SubSeq(text, a, b)).keys
        /\ PaintJsonLoads(SubSeq(text, a, b)).actions # << >>

\* the static default list of the operation
DefaultActions(op, kw) == IF op = "draw_rectangle" THEN DefaultRectangle(kw) ELSE DefaultText(kw)

\* C25: for 'draw_rectangle' and 'add_text', when the model answered and its
\* text holds no JSON object with a non-empty actions array, the call
\* returns the static default list; and whatever the call returns is the
\* default list or the non-empty list of the answer.
C25_DefaultsWithoutActionList ==
    (ppc = "done" /\ operation \in {"draw_rectangle", "add_text"} /\ ~llm_response.raises) =>
        /\ ~HasActionList(llm_response.text) =>
               actions_data = Returns(DefaultActions(operation, kwargs))
        /\ actions_data.kind = "return" =>
               \/ actions_data.actions = DefaultActions(operation, kwargs)
               \/ /\ HasActionList(llm_response.text)
                  /\ actions_data.actions = << Mouse("click", 1, 2, One) >>

(***************************************************************************)
(* Assignment_8: AgentManager and main() (agent.py).  AgentLoop, MultiMCP, *)
(* the Ergast and Google Sheets requests and the Telegram library are      *)
(* outside the file: whether they succeed or raise is chosen by the        *)
(* actions.  Updates are handled one at a time, and reply_text is taken    *)
(* not to fail.                                                            *)
(***************************************************************************)
MaxHandled == 2

\* what the user may type at "Select mode (1 or 2)": "1", "2", " 2 ", "3", "", "12"
ModeInputs ==
    { <<"1">>, <<"2">>, <<" ", "2", " ">>, <<"3">>, << >>, <<"1", "2">> }

\* queries: "F1 stand", "f1", "stand", "hi", "standf1", "Exit", "quit"
UserInputs ==
    { <<"F", "1", " ", "s", "t", "a", "n", "d">>,
      <<"f", "1">>,
      <<"s", "t", "a", "n", "d">>,
      <<"h", "i">>,
      <<"s", "t", "a", "n", "d", "f", "1">>,
      <<"E", "x", "i", "t">>,
      <<"q", "u", "i", "t">> }

\* mutation of IsF1Request: `or` in place of `and`
IsF1RequestEither(q) ==
    \/ IsSubstr(<<"f", "1">>, Lower(q))
    \/ IsSubstr(<<"s", "t", "a", "n", "d">>, Lower(q))

\* line 149
IsF1Request(q) ==
    /\ IsSubstr(<<"f", "1">>, Lower(q))
    /\ IsSubstr(<<"s", "t", "a", "n", "d">>, Lower(q))

\* process_query, lines 148-186, with multi_mcp set: what it called, whether
\* it raised, and the replies it sent when given a Telegram update
process_query(q, telegram_update, f1_ok, loop_ok) ==
    LET Sent(texts) == IF telegram_update THEN texts ELSE << >>
    IN  IF IsF1Request(q)
        THEN IF f1_ok
             THEN [f1_fetched |-> TRUE, agent_loop_run |-> FALSE, raised |-> FALSE,
                   replies |-> Sent(<< "Fetching F1 standings and creating spreadsheet...", "Here's your F1 standings spreadsheet: <url>" >>)]
             ELSE [f1_fetched |-> TRUE, agent_loop_run |-> FALSE, raised |-> TRUE,
                   replies |-> Sent(<< "Fetching F1 standings and creating spreadsheet...", "Failed to fetch F1 standings: <error>" >>)]
        ELSE IF loop_ok
             THEN [f1_fetched |-> FALSE, agent_loop_run |-> TRUE, raised |-> FALSE,
                   replies |-> Sent(<< "<clean_response>" >>)]
             ELSE [f1_fetched |-> FALSE, agent_loop_run |-> TRUE, raised |-> TRUE,
                   replies |-> Sent(<< "Sorry, an error occurred: <error>" >>)]

\* handle_telegram_message: the replies sent for one text message
handle_telegram_message(q, f1_ok, loop_ok) ==
    LET result == process_query(q, TRUE, f1_ok, loop_ok)
    IN  IF result.raised THEN Append(result.replies, "Sorry, I encountered an error while processing your request.")
        ELSE result.replies

\* setup_telegram: "skipped" is line 215 (returns None), "started" line 276,
\* "ConnectError" line 271 (returns False), "error" line 274 (raises)
setup_telegram(has_token, result) == IF has_token THEN result ELSE "skipped"

\* AgentManager() at line 294, in an environment with or without the token
InitShare ==
    /\ IdleScorer
    /\ InitMemory
    /\ InitThreads({})
    /\ IdleMovie
    /\ IdlePaint
    /\ apc = "start"
    /\ multi_mcp = FALSE
    /\ token \in BOOLEAN
    /\ mode = << >>
    /\ setup = "none"
    /\ user_input = << >>
    /\ replies = << >>
    /\ outcome = NoOutcome
    /\ handled = 0

\* line 297: when initialize raises, the exception leaves main()
Initialize(ok) ==
    /\ apc = "start"
    /\ multi_mcp' = ok
    /\ apc' = IF ok THEN "select" ELSE "failed"
    /\ UNCHANGED <<token, mode, setup, user_input, replies, outcome, handled>>
    /\ UNCHANGED <<scorerVars, memVars, agentVars, movieVars, paintVars>>

\* lines 304-323 and 348-350: one pass of the selection loop, and the branch
\* taken when it ends
SelectMode(typed) ==
    /\ apc = "select"
    /\ mode' = Strip(typed)
    /\ apc' = IF mode' \notin {<<"1">>, <<"2">>} THEN "select"
              ELSE IF mode' = <<"1">> THEN "console"
              ELSE IF ~token THEN "console"
              ELSE "setup"
    /\ UNCHANGED <<multi_mcp, token, setup, user_input, replies, outcome, handled>>
    /\ UNCHANGED <<scorerVars, memVars, agentVars, movieVars, paintVars>>

\* lines 325-340 with setup_telegram
SetupTelegram(result) ==
    /\ apc = "setup"
    /\ setup' = setup_telegram(token, result)
    /\ apc' = CASE setup' = "started" -> "polling"
                [] setup' \in {"ConnectError", "skipped"} -> "console"
                [] OTHER -> "failed"
    /\ UNCHANGED <<multi_mcp, token, mode, user_input, replies, outcome, handled>>
    /\ UNCHANGED <<scorerVars, memVars, agentVars, movieVars, paintVars>>

\* console_mode, lines 281-290: one pass of its loop
ConsoleInput(typed, f1_ok, loop_ok) ==
    /\ apc = "console"
    /\ IF Lower(typed) \in {<<"e", "x", "i", "t">>, <<"q", "u", "i", "t">>}
       THEN /\ apc' = "exit"
            /\ UNCHANGED <<user_input, replies, outcome, handled>>
       ELSE /\ handled < MaxHandled
            /\ user_input' = typed
            /\ outcome' = process_query(typed, FALSE, f1_ok, loop_ok)
            /\ replies' = process_query(typed, FALSE, f1_ok, loop_ok).replies
            /\ handled' = handled + 1
            /\ UNCHANGED apc
    /\ UNCHANGED <<multi_mcp, token, mode, setup>>
    /\ UNCHANGED <<scorerVars, memVars, agentVars, movieVars, paintVars>>

\* handle_telegram_message for one text message, while main() sleeps at line 337
TelegramMessage(text, f1_ok, loop_ok) ==
    /\ apc = "polling"
    /\ handled < MaxHandled
    /\ user_input' = text
    /\ outcome' = process_query(text, TRUE, f1_ok, loop_ok)
    /\ replies' = handle_telegram_message(text, f1_ok, loop_ok)
    /\ handled' = handled + 1
    /\ UNCHANGED <<apc, multi_mcp, token, mode, setup>>
    /\ UNCHANGED <<scorerVars, memVars, agentVars, movieVars, paintVars>>

\* Ctrl+C while the bot runs, lines 342-346 and 355-356
Interrupt ==
    /\ apc = "polling"
    /\ apc' = "exit"
    /\ UNCHANGED <<multi_mcp, token, mode, setup, user_input, replies, outcome, handled>>
    /\ UNCHANGED <<scorerVars, memVars, agentVars, movieVars, paintVars>>

NextShare ==
    \/ \E ok \in BOOLEAN : Initialize(ok)
    \/ \E typed \in ModeInputs : SelectMode(typed)
    \/ \E result \in {"started", "ConnectError", "error"} : SetupTelegram(result)
    \/ \E typed \in UserInputs, f1_ok \in BOOLEAN, loop_ok \in BOOLEAN :
           ConsoleInput(typed, f1_ok, loop_ok)
    \/ \E text \in UserInputs, f1_ok \in BOOLEAN, loop_ok \in BOOLEAN :
           TelegramMessage(text, f1_ok, loop_ok)
    \/ Interrupt

SpecShare == InitShare /\ [][NextShare]_vars

(***************************************************************************)
(* Properties of Assignment_8                                              *)
(***************************************************************************)
\* C26: for the query handled last, the F1 fetch was called exactly when the
\* lower-cased query contains both "f1" and "stand"; a query that took the
\* F1 path was not given to AgentLoop, also when the fetch raised; every
\* other query was given to AgentLoop, and to nothing else.
C26_F1PathExactly ==
    handled > 0 =>
        /\ outcome.f1_fetched =
               (/\ IsSubstr(<<"f", "1">>, Lower(user_input))
                /\ IsSubstr(<<"s", "t", "a", "n", "d">>, Lower(user_input)))
        /\ outcome.f1_fetched => ~outcome.agent_loop_run
        /\ ~outcome.f1_fetched => outcome.agent_loop_run

\* the F1 fetch raised for the Telegram message "F1 stand", and AgentLoop was not run
C26_Witness ==
    /\ handled > 0
    /\ apc = "polling"
    /\ user_input = <<"F", "1", " ", "s", "t", "a", "n", "d">>
    /\ outcome.f1_fetched
    /\ outcome.raised
    /\ ~outcome.agent_loop_run

\* C27: for the Telegram message handled last, exactly one terminal reply
\* (any reply other than the "Fetching..." notice) was sent.
C27_OneTerminalReply ==
    (apc = "polling" /\ handled > 0) =>
        Cardinality({ i \in DOMAIN replies : replies[i] # "Fetching F1 standings and creating spreadsheet..." }) = 1

\* C28: the selection loop is left only with mode '1' or '2'; and when mode
\* '2' was selected and the token is missing or setup_telegram did not start
\* the bot, main() is in console mode (or has left it through exit / quit),
\* not terminated by an exception.
C28_FallsBackToConsole ==
    /\ apc \in {"setup", "console", "polling", "exit"} => mode \in {<<"1">>, <<"2">>}
    /\ (mode = <<"2">> /\ (~token \/ setup \in {"skipped", "ConnectError", "error"})) =>
           apc \in {"console", "exit"}

====
